---- MODULE Spec2Model ----
(***************************************************************************)
(* Startup research pipeline: ten LangGraph nodes run in a fixed linear    *)
(* order over one GraphState record; every node returns a partial update   *)
(* that the graph engine writes key by key onto the record; the request    *)
(* handler derives the response from the final record.                     *)
(*                                                                         *)
(* Conventions.  An Optional[T] value is a sequence of length at most one: *)
(* None is <<>> and a present value v is <<v>>.  Scores are held in tenths *)
(* (7.2 is 72).  A node's update is a record whose domain is the set of    *)
(* keys the node returned.                                                 *)
(***************************************************************************)
EXTENDS Integers, Sequences, FiniteSets, TLC

VARIABLES
    pc,         \* the node the engine runs next, or END / RESPONDED
    rec,        \* the GraphState record held by the engine's channels
    update,     \* the partial update returned by the node that ran last
    hist,       \* one entry per executed node: node, returned status, keys, errors
    llm,        \* behaviour of the language-model client for this request
    response,   \* the handler's response, None until it is produced
    arg,        \* the state object the last node was called with, as the call left it
    reqs,       \* two requests served at once: each one's node-1 position and record
    disk,       \* the document held by temp_downloads/downloaded_pitch_deck.pdf
    passes,     \* a structured-data map, followed by its successive flattenings
    poll        \* a run of TavilySearch.run_deep_research: position, queries, result

vars == <<pc, rec, update, hist, llm, response, arg, reqs, disk, passes, poll>>

----------------------------------------------------------------------------
(* Optional values and Python truthiness                                   *)

None == <<>>

Some(v) == <<v>>

\* `if x:` for an Optional[str]: None and "" are falsy
TruthyStr(o) == o # None /\ o[1] # ""

\* `if x:` for an Optional[BaseModel]: any model instance is truthy
TruthyObj(o) == o # None

IsPrefix(s, t) == Len(s) <= Len(t) /\ SubSeq(t, 1, Len(s)) = s

\* Python's s[:n]
Take(s, n) == SubSeq(s, 1, IF Len(s) < n THEN Len(s) ELSE n)

----------------------------------------------------------------------------
(* Bounds of the model                                                     *)

\* most results one search returns in the model (the node keeps the first 3)
MaxResults == 4

----------------------------------------------------------------------------
(* state.py: the record                                                    *)

\* a RawGatheringData that also declared the two Tavily fields node 4 reads
RawGatheringDataFieldsWithTavily ==
    {"pitch_deck_extracted", "website_scraped", "search_results", "tavily_report", "tavily_data"}

\* RawGatheringData declares exactly these fields
RawGatheringDataFields == {"pitch_deck_extracted", "website_scraped", "search_results"}

\* RawGatheringData()
EmptyRawGatheringData ==
    [pitch_deck_extracted |-> None, website_scraped |-> None, search_results |-> None]

\* the keys of GraphState, the channels of the compiled graph
GraphStateKeys ==
    {"startup_data", "pitch_deck_text", "pitch_deck_url", "pitch_deck_file_path",
     "raw_gathering_data", "research_findings", "structured_data",
     "status", "errors", "completed_at",
     "competitor_analysis", "thesis_pdf_path", "startup_id", "application_id"}

\* attribute read on a pydantic model: a declared field reads, any other name raises
HasAttr(fields, name) == name \in fields

----------------------------------------------------------------------------
(* A node either returns an update or lets an exception escape             *)

Raise(msg) == [raise |-> msg]

IsRaise(u) == "raise" \in DOMAIN u

\* a try whose except clause re-raises
TryExceptReraises(body, handler) == body

\* try: body / except Exception: return handler
TryExcept(body, handler) == IF IsRaise(body) THEN handler ELSE body

----------------------------------------------------------------------------
(* Sample data                                                             *)

DeckText == "Acme Deck\nproblem:\nProblem\n--- Page 2\nSolution"

DownloadedText == "Downloaded Deck\n--- Page 1\n--- Page 2"

\* text.split('\n')
Lines(text) ==
    CASE text = DeckText -> <<"Acme Deck", "problem:", "Problem", "--- Page 2", "Solution">>
      [] text = DownloadedText -> <<"Downloaded Deck", "--- Page 1", "--- Page 2">>
      [] OTHER -> <<text>>

\* lines with 2 < len < 100, a capital first letter and no trailing ':'
KeyPhraseLines == {"Acme Deck", "Problem", "Solution", "Downloaded Deck"}

RECURSIVE KeyPhrasesFrom(_, _, _)
KeyPhrasesFrom(lines, acc, num) ==
    IF lines = <<>> \/ Len(acc) >= num THEN acc
    ELSE LET l == Head(lines)
             keep == l \in KeyPhraseLines /\ \A i \in 1..Len(acc) : acc[i] # l
         IN KeyPhrasesFrom(Tail(lines), IF keep THEN Append(acc, l) ELSE acc, num)

\* PDFParser.extract_key_phrases
extract_key_phrases(text, num_phrases) == KeyPhrasesFrom(Lines(text), <<>>, num_phrases)

----------------------------------------------------------------------------
(* Node 1: parse_pitch_deck_node                                           *)

\* what the outside world does during node 1: temp directory creation,
\* the HTTP download and PDFParser.extract_text_from_path
Node1Env ==
    [io : {"ok", "raise"},
     download : {"ok", "http_error", "raise"},
     extract : {[success |-> TRUE, full_text |-> DownloadedText],
                [success |-> TRUE, full_text |-> ""],
                [success |-> FALSE, full_text |-> ""]}]

\* a Case A that takes the URL whenever there is one
UsesUrlFirst(state) == TruthyStr(state.pitch_deck_url)

\* Case A of node 1: a URL is present and no text is
UsesUrl(state) == TruthyStr(state.pitch_deck_url) /\ ~TruthyStr(state.pitch_deck_text)

\* Case A ran to the end: the download and the extraction both succeeded
Downloaded(state, e) == UsesUrl(state) /\ e.download = "ok" /\ e.extract.success

\* state.pitch_deck_text as node 1 leaves it on its own copy of the state
Node1Text(state, e) ==
    IF Downloaded(state, e) THEN Some(e.extract.full_text) ELSE state.pitch_deck_text

pitch_deck_input_found(state, e) ==
    IF UsesUrl(state) THEN Downloaded(state, e) ELSE TruthyStr(state.pitch_deck_text)

ExtractedPitchDeck(text) ==
    [raw_text |-> text, key_points |-> extract_key_phrases(text, 15)]

parse_pitch_deck_body(state, e) ==
    IF UsesUrl(state) /\ e.io = "raise" THEN Raise("cannot create temp_downloads")
    ELSE IF ~pitch_deck_input_found(state, e)
    THEN [status |-> "no_pitch_deck", raw_gathering_data |-> Some(EmptyRawGatheringData)]
    ELSE [status |-> "pitch_deck_parsed",
          raw_gathering_data |->
              Some([pitch_deck_extracted |-> Some(ExtractedPitchDeck(Node1Text(state, e)[1])),
                    website_scraped |-> None,
                    search_results |-> None])]

\* the state object node 1 was called with, after the call: Case A assigns the
\* extracted text to state.pitch_deck_text
parse_pitch_deck_input(state, e) ==
    IF UsesUrl(state) /\ e.io = "raise" THEN state
    ELSE [state EXCEPT !.pitch_deck_text = Node1Text(state, e)]

parse_pitch_deck_node(state, e) ==
    TryExcept(parse_pitch_deck_body(state, e),
              [status |-> "error", errors |-> <<"Pitch deck parsing error">>])

----------------------------------------------------------------------------
(* Node 2: scrape_website_node                                             *)

SiteText == "We build with Python on AWS"

Node2Env ==
    {[kind |-> "raise"],
     [kind |-> "result", success |-> FALSE, error |-> "timeout"],
     [kind |-> "result", success |-> TRUE, title |-> "Acme",
      description |-> "Acme home", main_text |-> SiteText],
     [kind |-> "result", success |-> TRUE, title |-> "", description |-> "", main_text |-> ""]}

common_techs ==
    <<"react", "python", "aws", "kubernetes", "nodejs", "vue", "angular", "django",
      "flask", "postgresql", "mongodb", "docker", "firebase", "gcp", "azure">>

\* tech.upper()
Upper(tech) ==
    CASE tech = "react" -> "REACT" [] tech = "python" -> "PYTHON" [] tech = "aws" -> "AWS"
      [] tech = "kubernetes" -> "KUBERNETES" [] tech = "nodejs" -> "NODEJS"
      [] tech = "vue" -> "VUE" [] tech = "angular" -> "ANGULAR" [] tech = "django" -> "DJANGO"
      [] tech = "flask" -> "FLASK" [] tech = "postgresql" -> "POSTGRESQL"
      [] tech = "mongodb" -> "MONGODB" [] tech = "docker" -> "DOCKER"
      [] tech = "firebase" -> "FIREBASE" [] tech = "gcp" -> "GCP" [] tech = "azure" -> "AZURE"

\* `tech in combined_text` for the lower-cased page text
Mentions(text, tech) == text = SiteText /\ tech \in {"python", "aws"}

RECURSIVE DetectTech(_, _)
DetectTech(text, techs) ==
    IF techs = <<>> THEN <<>>
    ELSE (IF Mentions(text, Head(techs)) THEN <<Upper(Head(techs))>> ELSE <<>>)
         \o DetectTech(text, Tail(techs))

\* RawGatheringData(), whatever the state holds
RawAlwaysEmpty(state) == EmptyRawGatheringData

\* state.raw_gathering_data or RawGatheringData()
RawOrEmpty(state) ==
    IF TruthyObj(state.raw_gathering_data) THEN state.raw_gathering_data[1]
    ELSE EmptyRawGatheringData

scrape_website_body(state, e) ==
    IF ~TruthyStr(state.startup_data.website)
    THEN [status |-> "no_website", raw_gathering_data |-> Some(RawOrEmpty(state))]
    ELSE IF e.kind = "raise" THEN Raise("browser crashed")
    ELSE IF ~e.success
    THEN [status |-> "website_scrape_failed",
          raw_gathering_data |-> Some(RawOrEmpty(state)),
          errors |-> <<"Website scraping failed">>]
    ELSE [status |-> "website_scraped",
          raw_gathering_data |->
              Some([RawOrEmpty(state) EXCEPT !.website_scraped =
                       Some([page_title |-> e.title,
                             page_description |-> e.description,
                             main_content |-> e.main_text,
                             technologies_detected |-> DetectTech(e.main_text, common_techs)])])]

\* the state object node 2 was called with, after the call: the scraped data is
\* assigned into state.raw_gathering_data when the state holds one
scrape_website_input(state, e) ==
    LET u == scrape_website_body(state, e)
    IN IF ~IsRaise(u) /\ u.status = "website_scraped" /\ state.raw_gathering_data # None
       THEN [state EXCEPT !.raw_gathering_data = u.raw_gathering_data]
       ELSE state

scrape_website_node(state, e) ==
    TryExcept(scrape_website_body(state, e),
              [status |-> "error",
               raw_gathering_data |-> Some(RawOrEmpty(state)),
               errors |-> <<"Website scraping error">>])

----------------------------------------------------------------------------
(* Node 3: search_startup_node                                             *)

\* the eleven web searches SerpAPISearch.search_startup always runs
SearchTypes ==
    {"company_search", "funding_search", "product_search", "team_search",
     "financials_search", "reviews_search", "partnerships_search", "crunchbase_search",
     "linkedin_search", "founder_backgrounds_search", "market_search"}

\* result number i of a search: title, link and snippet
ResultItem(i) == [title |-> i, link |-> i, snippet |-> i]

SearchReply(ok, n) == [success |-> ok, results |-> [i \in 1..n |-> ResultItem(i)]]

\* what SerpAPISearch does: it raises, it reports failure, or it returns the
\* replies of the web searches and of the news search
Node3Env ==
    {[kind |-> "raise"], [kind |-> "result", success |-> FALSE]}
    \cup {[kind |-> "result", success |-> TRUE,
           searches |-> [t \in SearchTypes |-> SearchReply(ok, n)],
           news |-> SearchReply(nok, n + 2)] :
              ok \in BOOLEAN, nok \in BOOLEAN, n \in 0..MaxResults}

\* the first `limit` results of a reply, when the reply succeeded
TopResults(reply, limit) == IF reply.success THEN Take(reply.results, limit) ELSE <<>>

organized_results(e) ==
    [company_info |-> TopResults(e.searches["company_search"], 3),
     funding_info |-> TopResults(e.searches["funding_search"], 3),
     product_info |-> TopResults(e.searches["product_search"], 3),
     team_info |-> TopResults(e.searches["team_search"], 3),
     news_articles |-> TopResults(e.news, 5),
     financials_info |-> TopResults(e.searches["financials_search"], 3),
     customer_reviews |-> TopResults(e.searches["reviews_search"], 3),
     partnerships |-> TopResults(e.searches["partnerships_search"], 3),
     industry_analysis |-> TopResults(e.searches["market_search"], 3),
     crunchbase_info |-> TopResults(e.searches["crunchbase_search"], 3),
     linkedin_info |-> TopResults(e.searches["linkedin_search"], 3),
     founder_backgrounds |-> TopResults(e.searches["founder_backgrounds_search"], 3)]

search_startup_body(state, e) ==
    IF state.startup_data.name = ""
    THEN [status |-> "no_startup_name", raw_gathering_data |-> Some(RawOrEmpty(state))]
    ELSE IF e.kind = "raise" THEN Raise("search client failed")
    ELSE IF ~e.success
    THEN [status |-> "search_failed",
          raw_gathering_data |-> Some(RawOrEmpty(state)),
          errors |-> <<"Startup search failed">>]
    ELSE [status |-> "search_completed",
          raw_gathering_data |->
              Some([RawOrEmpty(state) EXCEPT !.search_results =
                       Some([search_query |-> state.startup_data.name,
                             search_results |-> organized_results(e),
                             news_articles |-> organized_results(e).news_articles])])]

\* the state object node 3 was called with, after the call: the search results
\* are assigned into state.raw_gathering_data when the state holds one
search_startup_input(state, e) ==
    LET u == search_startup_body(state, e)
    IN IF ~IsRaise(u) /\ u.status = "search_completed" /\ state.raw_gathering_data # None
       THEN [state EXCEPT !.raw_gathering_data = u.raw_gathering_data]
       ELSE state

search_startup_node(state, e) ==
    TryExcept(search_startup_body(state, e),
              [status |-> "error",
               raw_gathering_data |-> Some(RawOrEmpty(state)),
               errors |-> <<"Startup search error">>])

----------------------------------------------------------------------------
(* JSON values as json.loads returns them.  A dict is the sequence of its  *)
(* items, in insertion order, with distinct keys.                          *)

JNull == [t |-> "null"]

JNum(n) == [t |-> "num", v |-> n]

JStr(str) == [t |-> "str", v |-> str]

JList(items) == [t |-> "list", v |-> items]

JDict(items) == [t |-> "dict", v |-> items]

Item(key, value) == [k |-> key, v |-> value]

\* `if x:` for a JSON value
Truthy(j) ==
    CASE j.t = "null" -> FALSE
      [] j.t = "num" -> j.v # 0
      [] j.t = "str" -> j.v # ""
      [] OTHER -> j.v # <<>>

HasKey(items, key) == \E i \in 1..Len(items) : items[i].k = key

\* d.get(key, default)
Get(items, key, default) ==
    IF HasKey(items, key)
    THEN items[CHOOSE i \in 1..Len(items) : items[i].k = key].v
    ELSE default

\* d[key] = value
SetItem(items, key, value) ==
    IF HasKey(items, key)
    THEN [i \in 1..Len(items) |-> IF items[i].k = key THEN Item(key, value) ELSE items[i]]
    ELSE Append(items, Item(key, value))

\* d1 == d2 for two dicts: the same keys with the same values, in any order
DictEq(a, b) ==
    /\ Len(a) = Len(b)
    /\ \A i \in 1..Len(a) : \E j \in 1..Len(b) :
           a[i].k = b[j].k /\ a[i].v.t = b[j].v.t /\ a[i].v = b[j].v

----------------------------------------------------------------------------
(* Strings as character sequences, for the key heuristics of flattening    *)

\* the spelling of the keys and patterns that occur
Chars(str) ==
    CASE str = "founders_score" -> <<"f", "o", "u", "n", "d", "e", "r", "s", "_", "s", "c", "o", "r", "e">>
      [] str = "market_score" -> <<"m", "a", "r", "k", "e", "t", "_", "s", "c", "o", "r", "e">>
      [] str = "product_score" -> <<"p", "r", "o", "d", "u", "c", "t", "_", "s", "c", "o", "r", "e">>
      [] str = "traction_score" -> <<"t", "r", "a", "c", "t", "i", "o", "n", "_", "s", "c", "o", "r", "e">>
      [] str = "team_score" -> <<"t", "e", "a", "m", "_", "s", "c", "o", "r", "e">>
      [] str = "financials_score" -> <<"f", "i", "n", "a", "n", "c", "i", "a", "l", "s", "_", "s", "c", "o", "r", "e">>
      [] str = "competition_score" -> <<"c", "o", "m", "p", "e", "t", "i", "t", "i", "o", "n", "_", "s", "c", "o", "r", "e">>
      [] str = "overall_score" -> <<"o", "v", "e", "r", "a", "l", "l", "_", "s", "c", "o", "r", "e">>
      [] str = "investment_recommendation" -> <<"i", "n", "v", "e", "s", "t", "m", "e", "n", "t", "_", "r", "e", "c", "o", "m", "m", "e", "n", "d", "a", "t", "i", "o", "n">>
      [] str = "investment_summary" -> <<"i", "n", "v", "e", "s", "t", "m", "e", "n", "t", "_", "s", "u", "m", "m", "a", "r", "y">>
      [] str = "key_risks" -> <<"k", "e", "y", "_", "r", "i", "s", "k", "s">>
      [] str = "key_opportunities" -> <<"k", "e", "y", "_", "o", "p", "p", "o", "r", "t", "u", "n", "i", "t", "i", "e", "s">>
      [] str = "score" -> <<"s", "c", "o", "r", "e">>
      [] str = "justification" -> <<"j", "u", "s", "t", "i", "f", "i", "c", "a", "t", "i", "o", "n">>
      [] str = "strengths" -> <<"s", "t", "r", "e", "n", "g", "t", "h", "s">>
      [] str = "weaknesses" -> <<"w", "e", "a", "k", "n", "e", "s", "s", "e", "s">>
      [] str = "name" -> <<"n", "a", "m", "e">>
      [] str = "industry" -> <<"i", "n", "d", "u", "s", "t", "r", "y">>
      [] str = "founders" -> <<"f", "o", "u", "n", "d", "e", "r", "s">>
      [] str = "employee_count" -> <<"e", "m", "p", "l", "o", "y", "e", "e", "_", "c", "o", "u", "n", "t">>
      [] str = "known_competitors" -> <<"k", "n", "o", "w", "n", "_", "c", "o", "m", "p", "e", "t", "i", "t", "o", "r", "s">>
      [] str = "raw_response" -> <<"r", "a", "w", "_", "r", "e", "s", "p", "o", "n", "s", "e">>
      [] str = "ai_scorecard" -> <<"a", "i", "_", "s", "c", "o", "r", "e", "c", "a", "r", "d">>
      [] str = "AI_SCORECARD" -> <<"A", "I", "_", "S", "C", "O", "R", "E", "C", "A", "R", "D">>
      [] str = "BASIC_INFORMATION" -> <<"B", "A", "S", "I", "C", "_", "I", "N", "F", "O", "R", "M", "A", "T", "I", "O", "N">>
      [] str = "DETAILED_FOUNDER_PROFILES" -> <<"D", "E", "T", "A", "I", "L", "E", "D", "_", "F", "O", "U", "N", "D", "E", "R", "_", "P", "R", "O", "F", "I", "L", "E", "S">>
      [] str = "company_info" -> <<"c", "o", "m", "p", "a", "n", "y", "_", "i", "n", "f", "o">>
      [] str = "founded_year" -> <<"f", "o", "u", "n", "d", "e", "d", "_", "y", "e", "a", "r">>
      [] str = "extras" -> <<"e", "x", "t", "r", "a", "s">>
      [] str = "note" -> <<"n", "o", "t", "e">>
      [] str = "THESIS_CLASSIFICATION" -> <<"T", "H", "E", "S", "I", "S", "_", "C", "L", "A", "S", "S", "I", "F", "I", "C", "A", "T", "I", "O", "N">>
      [] str = "CEO/FOUNDER_INFORMATION" -> <<"C", "E", "O", "/", "F", "O", "U", "N", "D", "E", "R", "_", "I", "N", "F", "O", "R", "M", "A", "T", "I", "O", "N">>
      [] str = "COMPANY_DETAILS" -> <<"C", "O", "M", "P", "A", "N", "Y", "_", "D", "E", "T", "A", "I", "L", "S">>
      [] str = "PRODUCT & BUSINESS" -> <<"P", "R", "O", "D", "U", "C", "T", " ", "&", " ", "B", "U", "S", "I", "N", "E", "S", "S">>
      [] str = "FINANCIAL_METRICS" -> <<"F", "I", "N", "A", "N", "C", "I", "A", "L", "_", "M", "E", "T", "R", "I", "C", "S">>
      [] str = "TRACTION & METRICS" -> <<"T", "R", "A", "C", "T", "I", "O", "N", " ", "&", " ", "M", "E", "T", "R", "I", "C", "S">>
      [] str = "MARKET_ANALYSIS" -> <<"M", "A", "R", "K", "E", "T", "_", "A", "N", "A", "L", "Y", "S", "I", "S">>
      [] str = "ADDITIONAL_INFO" -> <<"A", "D", "D", "I", "T", "I", "O", "N", "A", "L", "_", "I", "N", "F", "O">>
      [] str = "INVESTMENT_ANALYSIS" -> <<"I", "N", "V", "E", "S", "T", "M", "E", "N", "T", "_", "A", "N", "A", "L", "Y", "S", "I", "S">>
      [] str = "_INFORMATION" -> <<"_", "I", "N", "F", "O", "R", "M", "A", "T", "I", "O", "N">>
      [] str = "_CLASSIFICATION" -> <<"_", "C", "L", "A", "S", "S", "I", "F", "I", "C", "A", "T", "I", "O", "N">>
      [] str = "_DETAILS" -> <<"_", "D", "E", "T", "A", "I", "L", "S">>
      [] str = "_PROFILES" -> <<"_", "P", "R", "O", "F", "I", "L", "E", "S">>
      [] str = "_BUSINESS" -> <<"_", "B", "U", "S", "I", "N", "E", "S", "S">>
      [] str = "_METRICS" -> <<"_", "M", "E", "T", "R", "I", "C", "S">>
      [] str = "_ANALYSIS" -> <<"_", "A", "N", "A", "L", "Y", "S", "I", "S">>
      [] str = "_INFO" -> <<"_", "I", "N", "F", "O">>
      [] str = "_SCORECARD" -> <<"_", "S", "C", "O", "R", "E", "C", "A", "R", "D">>
      [] str = "FOUNDER" -> <<"F", "O", "U", "N", "D", "E", "R">>
      [] str = "CEO" -> <<"C", "E", "O">>
      [] str = "PRODUCT" -> <<"P", "R", "O", "D", "U", "C", "T">>
      [] str = "FINANCIAL" -> <<"F", "I", "N", "A", "N", "C", "I", "A", "L">>
      [] str = "TRACTION" -> <<"T", "R", "A", "C", "T", "I", "O", "N">>
      [] str = "MARKET" -> <<"M", "A", "R", "K", "E", "T">>
      [] str = "INVESTMENT" -> <<"I", "N", "V", "E", "S", "T", "M", "E", "N", "T">>
      [] str = "COMPANY" -> <<"C", "O", "M", "P", "A", "N", "Y">>
      [] str = "THESIS" -> <<"T", "H", "E", "S", "I", "S">>
      [] str = "BASIC" -> <<"B", "A", "S", "I", "C">>

\* c.upper() for one character
UpperChar(c) ==
    CASE c = "a" -> "A"
      [] c = "b" -> "B"
      [] c = "c" -> "C"
      [] c = "d" -> "D"
      [] c = "e" -> "E"
      [] c = "f" -> "F"
      [] c = "g" -> "G"
      [] c = "h" -> "H"
      [] c = "i" -> "I"
      [] c = "j" -> "J"
      [] c = "k" -> "K"
      [] c = "l" -> "L"
      [] c = "m" -> "M"
      [] c = "n" -> "N"
      [] c = "o" -> "O"
      [] c = "p" -> "P"
      [] c = "q" -> "Q"
      [] c = "r" -> "R"
      [] c = "s" -> "S"
      [] c = "t" -> "T"
      [] c = "u" -> "U"
      [] c = "v" -> "V"
      [] c = "w" -> "W"
      [] c = "x" -> "X"
      [] c = "y" -> "Y"
      [] c = "z" -> "Z"
      [] OTHER -> c

RECURSIVE MapChars(_, _, _, _)
\* cs.upper(), then '&' and '/' removed and ' ' (and '-', when asked) made '_'
MapChars(cs, i, acc, dash) ==
    IF i > Len(cs) THEN acc
    ELSE LET c == UpperChar(cs[i])
             out == CASE c = " " -> <<"_">>
                      [] c = "&" -> <<>>
                      [] c = "/" -> <<>>
                      [] c = "-" /\ dash -> <<"_">>
                      [] OTHER -> <<c>>
         IN MapChars(cs, i + 1, acc \o out, dash)

\* key.upper().replace(" ", "_").replace("&", "").replace("/", "").replace("-", "_")
NormalizeKey(cs) == MapChars(cs, 1, <<>>, TRUE)

\* s.upper().replace(" ", "_").replace("&", "").replace("/", "")
NormalizeSection(cs) == MapChars(cs, 1, <<>>, FALSE)

EndsWith(cs, suffix) ==
    Len(suffix) <= Len(cs) /\ SubSeq(cs, Len(cs) - Len(suffix) + 1, Len(cs)) = suffix

\* `sub in cs`
Contains(cs, sub) ==
    \E i \in 1..(Len(cs) - Len(sub) + 1) : SubSeq(cs, i, i + Len(sub) - 1) = sub

section_mappings ==
    {"BASIC_INFORMATION", "THESIS_CLASSIFICATION", "CEO/FOUNDER_INFORMATION", "DETAILED_FOUNDER_PROFILES",
     "COMPANY_DETAILS", "PRODUCT & BUSINESS", "FINANCIAL_METRICS", "TRACTION & METRICS",
     "MARKET_ANALYSIS", "ADDITIONAL_INFO", "INVESTMENT_ANALYSIS", "AI_SCORECARD"}

SectionSuffixes ==
    {"_INFORMATION", "_CLASSIFICATION", "_DETAILS", "_PROFILES", "_BUSINESS", "_METRICS", "_ANALYSIS", "_INFO", "_SCORECARD"}

SectionWords ==
    {"FOUNDER", "CEO", "PRODUCT", "FINANCIAL", "TRACTION", "MARKET", "INVESTMENT", "AI_SCORECARD", "COMPANY", "THESIS", "BASIC"}

is_section(normalized_key) ==
    \E sec \in section_mappings : NormalizeSection(Chars(sec)) = normalized_key

is_nested_section(normalized_key) ==
    \/ \E suf \in SectionSuffixes : EndsWith(normalized_key, Chars(suf))
    \/ \E w \in SectionWords : Contains(normalized_key, Chars(w))

\* a key whose dict value flatten_nested_json hoists
Hoisted(key) ==
    LET normalized_key == NormalizeKey(Chars(key))
    IN is_section(normalized_key) \/ is_nested_section(normalized_key)

RECURSIVE SetItems(_, _)
\* for sub_key, sub_value in value.items(): flattened[sub_key] = sub_value
SetItems(flattened, items) ==
    IF items = <<>> THEN flattened
    ELSE SetItems(SetItem(flattened, Head(items).k, Head(items).v), Tail(items))

RECURSIVE FlattenItems(_, _)
FlattenItems(items, flattened) ==
    IF items = <<>> THEN flattened
    ELSE LET it == Head(items)
         IN FlattenItems(Tail(items),
                IF it.v.t = "dict" /\ Hoisted(it.k)
                THEN SetItems(flattened, it.v.v)
                ELSE SetItem(flattened, it.k, it.v))

flatten_nested_json(data) ==
    IF data.t # "dict" THEN data ELSE JDict(FlattenItems(data.v, <<>>))

----------------------------------------------------------------------------
(* Node 4: llm_structure_node                                              *)

\* what the language-model call does: it raises, or it replies with a text.
\* A text is described by what the parser can see of it: prose around the
\* JSON or not, a '{' before a '}' or not, and the JSON value it holds, if any.
LLMRaises == [kind |-> "raise"]

LLMReply(prose, braces, body) ==
    [kind |-> "reply", prose |-> prose, braces |-> braces, body |-> body]

\* json.loads(llm_output), then json.loads of the text from the first '{' to the
\* last '}', then the raw_response fallback
ParseStructuredData(reply) ==
    IF ~reply.prose /\ reply.body # None THEN reply.body[1]
    ELSE IF reply.braces /\ reply.body # None /\ reply.body[1].t = "dict" THEN reply.body[1]
    ELSE JDict(<<Item("raw_response", JStr("llm_output"))>>)

\* float(x) and int(x) succeed on a number (the replies of the model hold no
\* numeric strings)
CanFloat(j) == j.t = "num"

\* int(x) of a number held in tenths
IntOf(j) == j.v \div 10

\* pydantic accepts the value for a `str` field
ValidStr(j) == j.t = "str"

\* pydantic accepts the value for a `List[str]` field
ValidStrList(j) == j.t = "list" /\ \A i \in 1..Len(j.v) : j.v[i].t = "str"

\* x.get(key, []) if isinstance(x.get(key), list) else []
ListOrEmpty(items, key) ==
    IF Get(items, key, JNull).t = "list" THEN Get(items, key, JNull).v ELSE <<>>

\* the scorecard_data the node settles on (a dict's items)
ScorecardData(sd) ==
    LET nested == Get(sd, "ai_scorecard", JNull)
        first == IF Truthy(nested) THEN nested ELSE JDict(sd)
    IN IF Truthy(Get(sd, "founders_score", JNull)) THEN sd
       ELSE IF first.t = "dict" /\ Truthy(Get(first.v, "founders_score", JNull)) THEN first.v
       ELSE <<>>

\* create_score_detail raises: float() of a value that is no number, or a
\* justification pydantic rejects
ScoreDetailRaises(data) ==
    data.t = "dict" /\ (\/ ~CanFloat(Get(data.v, "score", JNum(0)))
                        \/ ~ValidStr(Get(data.v, "justification", JStr(""))))

create_score_detail(data, weight) ==
    IF data.t = "dict"
    THEN [score |-> Get(data.v, "score", JNum(0)).v,
          max_score |-> 100,
          weight |-> weight,
          justification |-> Get(data.v, "justification", JStr("")).v,
          strengths |-> ListOrEmpty(data.v, "strengths"),
          weaknesses |-> ListOrEmpty(data.v, "weaknesses")]
    ELSE [score |-> 0, max_score |-> 100, weight |-> weight, justification |-> "",
          strengths |-> <<>>, weaknesses |-> <<>>]

ScoreKeys ==
    <<"founders_score", "market_score", "product_score", "traction_score",
      "team_score", "financials_score", "competition_score">>

AIScorecardRaises(scd) ==
    \/ \E i \in 1..Len(ScoreKeys) : ScoreDetailRaises(Get(scd, ScoreKeys[i], JNull))
    \/ ~CanFloat(Get(scd, "overall_score", JNum(0)))
    \/ ~ValidStr(Get(scd, "investment_recommendation", JStr("HOLD")))
    \/ ~ValidStr(Get(scd, "investment_summary", JStr("")))

\* weights are held in hundredths
AIScorecard(scd) ==
    [founders_score |-> create_score_detail(Get(scd, "founders_score", JNull), 25),
     market_score |-> create_score_detail(Get(scd, "market_score", JNull), 20),
     product_score |-> create_score_detail(Get(scd, "product_score", JNull), 15),
     traction_score |-> create_score_detail(Get(scd, "traction_score", JNull), 20),
     team_score |-> create_score_detail(Get(scd, "team_score", JNull), 10),
     financials_score |-> create_score_detail(Get(scd, "financials_score", JNull), 10),
     competition_score |-> create_score_detail(Get(scd, "competition_score", JNull), 10),
     overall_score |-> Get(scd, "overall_score", JNum(0)).v,
     investment_recommendation |-> Get(scd, "investment_recommendation", JStr("HOLD")).v,
     investment_summary |-> Get(scd, "investment_summary", JStr("")).v,
     key_risks |-> ListOrEmpty(scd, "key_risks"),
     key_opportunities |-> ListOrEmpty(scd, "key_opportunities")]

\* x or fallback, for a `str` field: a truthy value that is no string is rejected
StrOrRaises(j) == Truthy(j) /\ ~ValidStr(j)

StrOr(j, fallback) == IF Truthy(j) THEN j.v ELSE fallback

\* Optional[str] `or ""`
OptOr(o, fallback) == IF TruthyStr(o) THEN o[1] ELSE fallback

\* len(x) raises on None and on a number
HasLen(j) == j.t \in {"str", "list", "dict"}

RECURSIVE FounderProfiles(_)
\* one FounderProfile per dict of the founders list; other entries are passed over
FounderProfiles(items) ==
    IF items = <<>> THEN <<>>
    ELSE (IF Head(items).t = "dict"
          THEN <<[name |-> StrOr(Get(Head(items).v, "name", JNull), "")]>>
          ELSE <<>>) \o FounderProfiles(Tail(items))

FoundersRaise(founders_data) ==
    \/ ~HasLen(founders_data)
    \/ /\ founders_data.t = "list"
       /\ \E i \in 1..Len(founders_data.v) :
             /\ founders_data.v[i].t = "dict"
             /\ StrOrRaises(Get(founders_data.v[i].v, "name", JNull))

\* the entries the `for f in founders_data` loop sees that can be dicts
FounderEntries(founders_data) == IF founders_data.t = "list" THEN founders_data.v ELSE <<>>

\* int(structured_data.get("employee_count") or team_size or 0)
EmployeeCountRaises(sd) ==
    Truthy(Get(sd, "employee_count", JNull)) /\ ~CanFloat(Get(sd, "employee_count", JNull))

EmployeeCount(sd, startup_data) ==
    IF Truthy(Get(sd, "employee_count", JNull)) THEN IntOf(Get(sd, "employee_count", JNull))
    ELSE IF startup_data.team_size # None THEN startup_data.team_size[1]
    ELSE 0

\* some step between the flattening and the return raises
StructureRaises(sd) ==
    \/ sd.t # "dict"
    \/ /\ sd.t = "dict"
       /\ \/ FoundersRaise(Get(sd.v, "founders", JList(<<>>)))
          \/ AIScorecardRaises(ScorecardData(sd.v))
          \/ StrOrRaises(Get(sd.v, "name", JNull))
          \/ StrOrRaises(Get(sd.v, "industry", JNull))
          \/ EmployeeCountRaises(sd.v)

\* findings built without the scorecard, ai_scorecard left at its default None
ResearchFindingsWithoutScorecard(sd, state) ==
    [name |-> StrOr(Get(sd, "name", JNull), state.startup_data.name),
     industry |-> StrOr(Get(sd, "industry", JNull), OptOr(state.startup_data.industry, "")),
     employee_count |-> EmployeeCount(sd, state.startup_data),
     founders |-> FounderProfiles(FounderEntries(Get(sd, "founders", JList(<<>>)))),
     known_competitors |-> ListOrEmpty(sd, "known_competitors"),
     ai_scorecard |-> None]

\* the fields of ResearchFindings the model follows; the others are filled the
\* same way (`x or fallback`, or a list check) and are read by no later node
ResearchFindings(sd, state) ==
    [name |-> StrOr(Get(sd, "name", JNull), state.startup_data.name),
     industry |-> StrOr(Get(sd, "industry", JNull), OptOr(state.startup_data.industry, "")),
     employee_count |-> EmployeeCount(sd, state.startup_data),
     founders |-> FounderProfiles(FounderEntries(Get(sd, "founders", JList(<<>>)))),
     known_competitors |-> ListOrEmpty(sd, "known_competitors"),
     ai_scorecard |-> Some(AIScorecard(ScorecardData(sd)))]

\* the node from the parsing of the reply on
StructureReply(state, reply) ==
    LET sd == flatten_nested_json(ParseStructuredData(reply))
    IN IF StructureRaises(sd) THEN Raise("structuring failed")
       ELSE [status |-> "structured_by_llm",
             research_findings |-> Some(ResearchFindings(sd.v, state))]

\* the context f-string reads raw_gathering_data.tavily_report and .tavily_data
ContextRaises == ~HasAttr(RawGatheringDataFields, "tavily_report")
                 \/ ~HasAttr(RawGatheringDataFields, "tavily_data")

llm_structure_body(state, reply) ==
    IF ContextRaises THEN Raise("'RawGatheringData' object has no attribute 'tavily_report'")
    ELSE IF reply.kind = "raise" THEN Raise("LLM call failed")
    ELSE StructureReply(state, reply)

llm_structure_node(state, reply) ==
    TryExcept(llm_structure_body(state, reply),
              [status |-> "error", errors |-> <<"LLM structuring error">>])

----------------------------------------------------------------------------
(* Node 5: analyze_competitors_node                                        *)

\* json.loads(llm_output), then json.loads of the text between the braces;
\* without braces nothing is assigned and the next read of competitor_data raises
CompetitorDataUnbound(reply) ==
    ~(~reply.prose /\ reply.body # None) /\ ~reply.braces

ParseCompetitorData(reply) ==
    IF ~reply.prose /\ reply.body # None THEN reply.body[1]
    ELSE IF reply.body # None /\ reply.body[1].t = "dict" THEN reply.body[1]
    ELSE JDict(<<Item("competitors", JList(<<>>)),
                 Item("market_overview", JStr("Unable to parse competitor data")),
                 Item("competitive_advantages", JStr("")),
                 Item("market_threats", JStr("")),
                 Item("validated_market_data", JDict(<<>>))>>)

\* Competitor(...) is built inside its own try: an entry that cannot be built is skipped
CompetitorBuilt(comp_data) ==
    comp_data.t = "dict" /\ ~StrOrRaises(Get(comp_data.v, "name", JNull))

RECURSIVE Competitors(_)
Competitors(items) ==
    IF items = <<>> THEN <<>>
    ELSE (IF CompetitorBuilt(Head(items))
          THEN <<[name |-> StrOr(Get(Head(items).v, "name", JNull), "")]>>
          ELSE <<>>) \o Competitors(Tail(items))

CompetitorsRaise(cd) ==
    \/ cd.t # "dict"
    \/ /\ cd.t = "dict"
       /\ \/ Get(cd.v, "competitors", JList(<<>>)).t \notin {"list", "str"}
          \/ Get(cd.v, "validated_market_data", JDict(<<>>)).t # "dict"
          \/ StrOrRaises(Get(cd.v, "market_overview", JNull))

\* the whole list, without the slice
CompetitorListUncut(cd) ==
    IF Get(cd, "competitors", JList(<<>>)).t = "list"
    THEN Get(cd, "competitors", JList(<<>>)).v
    ELSE <<>>

\* competitor_list[:5] of a list; a string yields characters, none of which is built
CompetitorList(cd) ==
    IF Get(cd, "competitors", JList(<<>>)).t = "list"
    THEN Take(Get(cd, "competitors", JList(<<>>)).v, 5)
    ELSE <<>>

CompetitorAnalysis(cd, state) ==
    [startup_name |-> state.research_findings[1].name,
     competitors |-> Competitors(CompetitorList(cd)),
     market_overview |-> StrOr(Get(cd, "market_overview", JNull), "")]

analyze_competitors_body(state, reply) ==
    IF ~TruthyObj(state.research_findings)
    THEN [status |-> "no_research_findings", competitor_analysis |-> None]
    ELSE IF TruthyObj(state.raw_gathering_data)
            /\ ~HasAttr(RawGatheringDataFields, "tavily_report")
    THEN Raise("'RawGatheringData' object has no attribute 'tavily_report'")
    ELSE IF reply.kind = "raise" THEN Raise("LLM call failed")
    ELSE IF CompetitorDataUnbound(reply) THEN Raise("competitor_data referenced before assignment")
    ELSE IF CompetitorsRaise(ParseCompetitorData(reply)) THEN Raise("competitor data malformed")
    ELSE [status |-> "competitors_analyzed",
          competitor_analysis |-> Some(CompetitorAnalysis(ParseCompetitorData(reply).v, state))]

analyze_competitors_node(state, reply) ==
    TryExcept(analyze_competitors_body(state, reply),
              [status |-> "error", errors |-> <<"Competitor analysis error">>])

----------------------------------------------------------------------------
(* Node 6: generate_investment_thesis_node                                 *)

\* the PDF library writes the file or raises
Node6Env == {"ok", "raise"}

generate_investment_thesis_body(state, e) ==
    IF ~TruthyObj(state.research_findings)
    THEN [status |-> "no_research_findings", thesis_pdf_path |-> None]
    ELSE IF e = "raise" THEN Raise("PDF build failed")
    ELSE [status |-> "thesis_pdf_generated", thesis_pdf_path |-> Some("outputs/thesis.pdf")]

generate_investment_thesis_node(state, e) ==
    TryExcept(generate_investment_thesis_body(state, e),
              [status |-> "error", errors |-> <<"PDF generation error">>])

----------------------------------------------------------------------------
(* Nodes 7 to 10: the platform backend                                     *)

\* what a POST to the backend does: it raises, or it answers with a status code
\* and, on 200/201, a body that may or may not carry an id
BackendEnv ==
    {[kind |-> "raise"],
     [kind |-> "response", ok |-> FALSE, id |-> None],
     [kind |-> "response", ok |-> TRUE, id |-> None],
     [kind |-> "response", ok |-> TRUE, id |-> Some("id-1")]}

\* a node 7 that posts the startup without looking at research_findings
startup_creation_unguarded(state, e) ==
    IF e.kind = "raise" THEN Raise("connection error")
    ELSE IF e.ok
    THEN [status |-> "startup_entry_created", api_response |-> e, startup_id |-> e.id]
    ELSE [status |-> "api_error", errors |-> <<"API Error">>]

startup_creation_body(state, e) ==
    IF ~TruthyObj(state.research_findings)
    THEN [status |-> "skipped_api_entry",
          errors |-> <<"No research findings available for API entry">>]
    ELSE IF e.kind = "raise" THEN Raise("connection error")
    ELSE IF e.ok
    THEN [status |-> "startup_entry_created", api_response |-> e, startup_id |-> e.id]
    ELSE [status |-> "api_error", errors |-> <<"API Error">>]

startup_creation_node(state, e) ==
    TryExcept(startup_creation_body(state, e),
              [status |-> "error", errors |-> <<"Startup entry creation error">>])

\* a node 8 that posts the application without looking at startup_id
startup_application_creation_unguarded(state, e) ==
    IF e.kind = "raise" THEN Raise("connection error")
    ELSE IF e.ok
    THEN [status |-> "application_created", api_response_app |-> e, application_id |-> e.id]
    ELSE [status |-> "api_error_app", errors |-> <<"Application API Error">>]

startup_application_creation_body(state, e) ==
    IF ~TruthyStr(state.startup_id)
    THEN [status |-> "skipped_application_creation",
          errors |-> <<"No startup_id available for application creation">>]
    ELSE IF e.kind = "raise" THEN Raise("connection error")
    ELSE IF e.ok
    THEN [status |-> "application_created", api_response_app |-> e, application_id |-> e.id]
    ELSE [status |-> "api_error_app", errors |-> <<"Application API Error">>]

startup_application_creation_node(state, e) ==
    TryExcept(startup_application_creation_body(state, e),
              [status |-> "error", errors |-> <<"Startup application creation error">>])

\* nodes 9 and 10 also ask the file system whether the file exists
UploadEnv == [exists : BOOLEAN, post : BackendEnv]

upload_thesis_body(state, e) ==
    IF ~TruthyStr(state.startup_id) THEN [status |-> "skipped_upload_no_id"]
    ELSE IF ~TruthyStr(state.thesis_pdf_path) \/ ~e.exists
    THEN [status |-> "skipped_upload_no_pdf"]
    ELSE IF ~TruthyObj(state.research_findings)
            \/ ~TruthyObj(state.research_findings[1].ai_scorecard)
    THEN [status |-> "skipped_upload_no_scores"]
    ELSE IF e.post.kind = "raise" THEN Raise("connection error")
    ELSE IF e.post.ok THEN [status |-> "upload_complete", upload_response |-> e.post]
    ELSE [status |-> "upload_error", errors |-> <<"Upload API Error">>]

upload_thesis_node(state, e) ==
    TryExcept(upload_thesis_body(state, e),
              [status |-> "error", errors |-> <<"Upload error">>])

\* a node 10 that posts without looking for the file
pitch_deck_upload_unchecked(state, e) ==
    IF ~TruthyStr(state.startup_id)
    THEN [status |-> "skipped_pitch_deck_upload_no_startup_id"]
    ELSE IF ~TruthyStr(state.application_id)
    THEN [status |-> "skipped_pitch_deck_upload_no_app_id"]
    ELSE IF e.post.kind = "raise" THEN Raise("connection error")
    ELSE IF e.post.ok
    THEN [status |-> "pitch_deck_upload_complete", pitch_deck_upload_response |-> e.post]
    ELSE [status |-> "pitch_deck_upload_error", errors |-> <<"Pitch Deck Upload API Error">>]

pitch_deck_upload_body(state, e) ==
    IF ~TruthyStr(state.startup_id)
    THEN [status |-> "skipped_pitch_deck_upload_no_startup_id"]
    ELSE IF ~TruthyStr(state.application_id)
    THEN [status |-> "skipped_pitch_deck_upload_no_app_id"]
    ELSE IF ~TruthyStr(state.pitch_deck_file_path) \/ ~e.exists
    THEN [status |-> "skipped_pitch_deck_upload_no_file"]
    ELSE IF e.post.kind = "raise" THEN Raise("connection error")
    ELSE IF e.post.ok
    THEN [status |-> "pitch_deck_upload_complete", pitch_deck_upload_response |-> e.post]
    ELSE [status |-> "pitch_deck_upload_error", errors |-> <<"Pitch Deck Upload API Error">>]

\* a node 10 whose except clause also clears application_id
pitch_deck_upload_node_clearing(state, e) ==
    TryExcept(pitch_deck_upload_body(state, e),
              [status |-> "error", errors |-> <<"Pitch deck upload error">>,
               application_id |-> None])

pitch_deck_upload_node(state, e) ==
    TryExcept(pitch_deck_upload_body(state, e),
              [status |-> "error", errors |-> <<"Pitch deck upload error">>])

----------------------------------------------------------------------------
(* graph.py: the compiled graph                                            *)

Nodes ==
    <<"parse_pitch_deck", "scrape_website", "search_startup", "llm_structure",
      "analyze_competitors", "generate_investment_thesis", "startup_creation",
      "startup_application_creation", "upload_thesis", "pitch_deck_upload">>

\* graph.set_entry_point
EntryPoint == "parse_pitch_deck"

\* a graph wired without the edge into analyze_competitors
EdgeWithoutCompetitors(node) ==
    CASE node = "parse_pitch_deck" -> "scrape_website"
      [] node = "scrape_website" -> "search_startup"
      [] node = "search_startup" -> "llm_structure"
      [] node = "llm_structure" -> "generate_investment_thesis"
      [] node = "analyze_competitors" -> "generate_investment_thesis"
      [] node = "generate_investment_thesis" -> "startup_creation"
      [] node = "startup_creation" -> "startup_application_creation"
      [] node = "startup_application_creation" -> "upload_thesis"
      [] node = "upload_thesis" -> "pitch_deck_upload"
      [] node = "pitch_deck_upload" -> "END"

\* graph.add_edge(a, b), one per node
Edge(node) ==
    CASE node = "parse_pitch_deck" -> "scrape_website"
      [] node = "scrape_website" -> "search_startup"
      [] node = "search_startup" -> "llm_structure"
      [] node = "llm_structure" -> "analyze_competitors"
      [] node = "analyze_competitors" -> "generate_investment_thesis"
      [] node = "generate_investment_thesis" -> "startup_creation"
      [] node = "startup_creation" -> "startup_application_creation"
      [] node = "startup_application_creation" -> "upload_thesis"
      [] node = "upload_thesis" -> "pitch_deck_upload"
      [] node = "pitch_deck_upload" -> "END"

\* a merge that drops the gathered data whenever a node does not return it
WrittenOrReset(state, u, key) ==
    IF key \in DOMAIN u THEN u[key]
    ELSE IF key = "raw_gathering_data" THEN None ELSE state[key]

\* a merge that keeps the status "error" once a node has set it
WrittenStickyError(state, u, key) ==
    IF key = "status" /\ state.status = "error" THEN "error"
    ELSE IF key \in DOMAIN u THEN u[key] ELSE state[key]

\* the value of channel `key` after a node's update is written: GraphState
\* declares no reducer, so a key the update holds replaces the channel's value
\* and a key it does not hold leaves the channel alone
Written(state, u, key) == IF key \in DOMAIN u THEN u[key] ELSE state[key]

\* only keys of GraphState are channels; any other key of an update is dropped
Merge(state, u) ==
    [startup_data |-> Written(state, u, "startup_data"),
     pitch_deck_text |-> Written(state, u, "pitch_deck_text"),
     pitch_deck_url |-> Written(state, u, "pitch_deck_url"),
     pitch_deck_file_path |-> Written(state, u, "pitch_deck_file_path"),
     raw_gathering_data |-> Written(state, u, "raw_gathering_data"),
     research_findings |-> Written(state, u, "research_findings"),
     structured_data |-> Written(state, u, "structured_data"),
     status |-> Written(state, u, "status"),
     errors |-> Written(state, u, "errors"),
     completed_at |-> Written(state, u, "completed_at"),
     competitor_analysis |-> Written(state, u, "competitor_analysis"),
     thesis_pdf_path |-> Written(state, u, "thesis_pdf_path"),
     startup_id |-> Written(state, u, "startup_id"),
     application_id |-> Written(state, u, "application_id")]

----------------------------------------------------------------------------
(* api.py: the request handler                                             *)

\* a handler that classifies by the error list instead of the findings
research_startup_response_by_errors(result) ==
    IF result.errors = <<>>
    THEN [http |-> 200, status |-> "success",
          workflow_status |-> Some(result.status),
          research_findings |-> result.research_findings,
          competitor_analysis |-> result.competitor_analysis,
          thesis_pdf_path |-> result.thesis_pdf_path,
          errors |-> Some(result.errors)]
    ELSE [http |-> 500, status |-> "error",
          workflow_status |-> Some(result.status),
          research_findings |-> None,
          competitor_analysis |-> None,
          thesis_pdf_path |-> None,
          errors |-> Some(result.errors)]

\* the response built from the final record of a completed run
research_startup_response(result) ==
    IF TruthyObj(result.research_findings)
    THEN [http |-> 200, status |-> "success",
          workflow_status |-> Some(result.status),
          research_findings |-> result.research_findings,
          competitor_analysis |-> result.competitor_analysis,
          thesis_pdf_path |-> result.thesis_pdf_path,
          errors |-> Some(result.errors)]
    ELSE [http |-> 500, status |-> "error",
          workflow_status |-> Some(result.status),
          research_findings |-> None,
          competitor_analysis |-> None,
          thesis_pdf_path |-> None,
          errors |-> Some(result.errors)]

\* the response of the handler's own except branch, when ainvoke raises
exception_response ==
    [http |-> 500, status |-> "error", workflow_status |-> None,
     research_findings |-> None, competitor_analysis |-> None,
     thesis_pdf_path |-> None, errors |-> None]

\* the inputs a request can carry
StartupDataSamples ==
    {[name |-> "", website |-> None, industry |-> None, team_size |-> None],
     [name |-> "Acme", website |-> None, industry |-> None, team_size |-> None],
     [name |-> "Acme", website |-> Some("https://acme.example"), industry |-> None,
      team_size |-> None],
     [name |-> "Acme", website |-> Some("https://acme.example"), industry |-> Some("AI"),
      team_size |-> Some(12)]}

\* GraphState(startup_data=..., pitch_deck_text=..., pitch_deck_url=...,
\* pitch_deck_file_path=..., status="initialized")
InitialState(startup_data, text, url, path) ==
    [startup_data |-> startup_data,
     pitch_deck_text |-> text,
     pitch_deck_url |-> url,
     pitch_deck_file_path |-> path,
     raw_gathering_data |-> None,
     research_findings |-> None,
     structured_data |-> None,
     status |-> "initialized",
     errors |-> <<>>,
     completed_at |-> None,
     competitor_analysis |-> None,
     thesis_pdf_path |-> None,
     startup_id |-> None,
     application_id |-> None]

InitialStates ==
    {InitialState(sd, text, url, path) :
        sd \in StartupDataSamples,
        text \in {None, Some(""), Some(DeckText)},
        url \in {None, Some("https://drive.example/deck")},
        path \in {None, Some("uploads/deck.pdf")}}

----------------------------------------------------------------------------
(* Sample replies of the language model                                    *)

ScoreObject(score) == JDict(<<Item("score", JNum(score)), Item("justification", JStr("why"))>>)

\* a flat, well-formed reply with the scorecard fields at the top level
FlatScorecardItems(overall, recommendation) ==
    <<Item("name", JStr("Acme Inc")),
      Item("founders_score", ScoreObject(80)),
      Item("team_score", ScoreObject(60)),
      Item("overall_score", JNum(overall)),
      Item("investment_recommendation", JStr(recommendation))>>

\* the same fields one level deep under section headers
NestedScorecardItems(overall, recommendation) ==
    <<Item("BASIC_INFORMATION", JDict(<<Item("name", JStr("Acme Inc"))>>)),
      Item("AI_SCORECARD",
           JDict(<<Item("founders_score", ScoreObject(80)),
                   Item("team_score", ScoreObject(60)),
                   Item("overall_score", JNum(overall)),
                   Item("investment_recommendation", JStr(recommendation))>>))>>

\* the replies a pipeline run is checked with
PipelineReplies ==
    {LLMRaises,
     LLMReply(TRUE, FALSE, None),
     LLMReply(FALSE, TRUE, Some(JDict(FlatScorecardItems(72, "BUY")))),
     LLMReply(TRUE, TRUE, Some(JDict(NestedScorecardItems(72, "BUY"))))}

----------------------------------------------------------------------------
(* The run of one request                                                  *)

Init ==
    /\ pc = EntryPoint
    /\ rec \in InitialStates
    /\ update = [status |-> "initialized"]
    /\ hist = <<>>
    /\ llm \in PipelineReplies
    /\ response = None
    /\ arg = rec
    /\ reqs = <<>>
    /\ disk = None
    /\ passes = <<>>
    /\ poll = <<>>

\* the engine runs `node`, which returned u: the update is written and the edge
\* followed; an exception that escaped the node ends ainvoke, and the handler's
\* except branch answers
RunNode(node, u, after) ==
    /\ pc = node
    /\ update' = u
    /\ arg' = after
    /\ llm' = llm
    /\ UNCHANGED <<reqs, disk, passes, poll>>
    /\ IF IsRaise(u)
       THEN /\ pc' = "RESPONDED"
            /\ response' = Some(exception_response)
            /\ UNCHANGED <<rec, hist>>
       ELSE /\ rec' = Merge(rec, u)
            /\ hist' = Append(hist, [node |-> node, status |-> u.status, keys |-> DOMAIN u,
                                    errors |-> IF "errors" \in DOMAIN u THEN u.errors
                                               ELSE <<>>])
            /\ pc' = Edge(node)
            /\ response' = response

ParsePitchDeck ==
    \E e \in Node1Env :
        RunNode("parse_pitch_deck", parse_pitch_deck_node(rec, e),
                parse_pitch_deck_input(rec, e))

ScrapeWebsite ==
    \E e \in Node2Env :
        RunNode("scrape_website", scrape_website_node(rec, e), scrape_website_input(rec, e))

SearchStartup ==
    \E e \in Node3Env :
        RunNode("search_startup", search_startup_node(rec, e), search_startup_input(rec, e))

LLMStructure == RunNode("llm_structure", llm_structure_node(rec, llm), rec)

AnalyzeCompetitors ==
    \E reply \in PipelineReplies :
        RunNode("analyze_competitors", analyze_competitors_node(rec, reply), rec)

GenerateInvestmentThesis ==
    \E e \in Node6Env :
        RunNode("generate_investment_thesis", generate_investment_thesis_node(rec, e), rec)

StartupCreation ==
    \E e \in BackendEnv : RunNode("startup_creation", startup_creation_node(rec, e), rec)

StartupApplicationCreation ==
    \E e \in BackendEnv :
        RunNode("startup_application_creation",
                startup_application_creation_node(rec, e), rec)

UploadThesis ==
    \E e \in UploadEnv : RunNode("upload_thesis", upload_thesis_node(rec, e), rec)

PitchDeckUpload ==
    \E e \in UploadEnv : RunNode("pitch_deck_upload", pitch_deck_upload_node(rec, e), rec)

\* the handler builds the response from the record ainvoke returned
Respond ==
    /\ pc = "END"
    /\ response' = Some(research_startup_response(rec))
    /\ pc' = "RESPONDED"
    /\ UNCHANGED <<rec, update, hist, llm, arg, reqs, disk, passes, poll>>

Next ==
    \/ ParsePitchDeck
    \/ ScrapeWebsite
    \/ SearchStartup
    \/ LLMStructure
    \/ AnalyzeCompetitors
    \/ GenerateInvestmentThesis
    \/ StartupCreation
    \/ StartupApplicationCreation
    \/ UploadThesis
    \/ PitchDeckUpload
    \/ Respond

Spec == Init /\ [][Next]_vars

----------------------------------------------------------------------------
(* Node 4 from the reply on, for the claims about how a reply is reconciled: *)
(* the inputs are a record as node 3 leaves it and a reply of the model      *)

ScoreSamples == {0, 49, 50, 65, 72, 80, 100}

RecommendationSamples == {"STRONG_BUY", "BUY", "HOLD", "PASS"}

\* replies that hold a scorecard: flat or under section headers, the
\* recommendation given or left out
ScorecardReplies ==
    {LLMReply(prose, TRUE, Some(JDict(items))) :
        prose \in BOOLEAN,
        items \in {FlatScorecardItems(o, r) : o \in ScoreSamples, r \in RecommendationSamples}
             \cup {NestedScorecardItems(o, r) : o \in ScoreSamples, r \in RecommendationSamples}
             \cup {<<Item("AI_SCORECARD",
                         JDict(<<Item("founders_score", ScoreObject(70)),
                                 Item("overall_score", JNum(o))>>))>> : o \in ScoreSamples}}

\* replies that hold no JSON object: prose without braces, prose whose braces
\* enclose no valid JSON, and a JSON text that is a list
UnparseableReplies ==
    {LLMReply(TRUE, braces, None) : braces \in BOOLEAN}
    \cup {LLMReply(FALSE, FALSE, Some(JList(<<>>)))}

\* the fields of a reply that are given, null or left out
MissingKeys == {"name", "industry", "founders", "score", "overall_score"}

MissingKinds == {"given", "null", "absent"}

\* the items of the fields among `fields` that are not left out: the given
\* value, or null
GivenOrNull(fields, kinds) ==
    LET present == SelectSeq(fields, LAMBDA f : kinds[f.k] # "absent")
    IN [i \in 1..Len(present) |->
           IF kinds[present[i].k] = "null" THEN Item(present[i].k, JNull) ELSE present[i]]

\* a section-nested reply in which each of the five fields is given, null or
\* left out
MissingFieldReply(kinds) ==
    LLMReply(FALSE, TRUE,
        Some(JDict(<<
            Item("BASIC_INFORMATION",
                 JDict(GivenOrNull(<<Item("name", JStr("Acme Inc")),
                                     Item("industry", JStr("AI"))>>, kinds))),
            Item("DETAILED_FOUNDER_PROFILES",
                 JDict(GivenOrNull(<<Item("founders",
                                          JList(<<JDict(<<Item("name", JStr("Ada"))>>)>>))>>,
                                   kinds))),
            Item("AI_SCORECARD",
                 JDict(<<Item("founders_score",
                              JDict(GivenOrNull(<<Item("score", JNum(80))>>, kinds)
                                    \o <<Item("justification", JStr("why"))>>))>>
                       \o GivenOrNull(<<Item("overall_score", JNum(72))>>, kinds)))>>)))

\* a record as node 3 leaves it for a request with a name and a parsed deck
AfterSearch ==
    [InitialState([name |-> "Acme", website |-> None, industry |-> None, team_size |-> None],
                  Some(DeckText), None, None)
        EXCEPT !.status = "search_completed",
               !.raw_gathering_data =
                   Some([EmptyRawGatheringData EXCEPT
                            !.pitch_deck_extracted = Some(ExtractedPitchDeck(DeckText))])]

InitReply ==
    /\ pc = "llm_structure"
    /\ rec = AfterSearch
    /\ update = [status |-> "search_completed"]
    /\ hist = <<>>
    /\ \/ llm \in ScorecardReplies \cup UnparseableReplies
       \/ \E kinds \in [MissingKeys -> MissingKinds] : llm = MissingFieldReply(kinds)
    /\ response = None
    /\ arg = rec
    /\ reqs = <<>>
    /\ disk = None
    /\ passes = <<>>
    /\ poll = <<>>

\* the reply is parsed, flattened and turned into ResearchFindings, inside the
\* node's try
ReconcileReply ==
    RunNode("llm_structure",
            TryExcept(StructureReply(rec, llm),
                      [status |-> "error", errors |-> <<"LLM structuring error">>]),
            rec)

SpecReply == InitReply /\ [][ReconcileReply]_vars

----------------------------------------------------------------------------
(* The handler's response as a function of the final record                *)

\* the statuses node 10 can return
PitchDeckUploadStatuses ==
    {"skipped_pitch_deck_upload_no_startup_id", "skipped_pitch_deck_upload_no_app_id",
     "skipped_pitch_deck_upload_no_file", "pitch_deck_upload_complete",
     "pitch_deck_upload_error", "error"}

FindingsSample ==
    ResearchFindings(flatten_nested_json(JDict(NestedScorecardItems(72, "BUY"))).v, AfterSearch)

\* final records of completed runs, with and without research findings
FinalRecords ==
    {[AfterSearch EXCEPT !.status = st, !.errors = errs, !.research_findings = rf,
                         !.thesis_pdf_path = path, !.competitor_analysis = ca] :
        st \in PitchDeckUploadStatuses,
        errs \in {<<>>, <<"Upload API Error">>, <<"Website scraping failed", "Upload API Error">>},
        rf \in {None, Some(FindingsSample)},
        path \in {None, Some("outputs/thesis.pdf")},
        ca \in {None, Some([startup_name |-> "Acme", competitors |-> <<>>,
                             market_overview |-> ""])}}

InitHandler ==
    /\ pc = "END"
    /\ rec \in FinalRecords
    /\ update = [status |-> rec.status]
    /\ hist = <<>>
    /\ llm = LLMRaises
    /\ response = None
    /\ arg = rec
    /\ reqs = <<>>
    /\ disk = None
    /\ passes = <<>>
    /\ poll = <<>>

SpecHandler == InitHandler /\ [][Respond]_vars

----------------------------------------------------------------------------
(* Properties of a run                                                     *)

NodeSet == {Nodes[i] : i \in 1..Len(Nodes)}

\* the nodes that have run, in the order they ran
StageNames == [i \in 1..Len(hist) |-> hist[i].node]

\* a history entry of a node that reported an error
ReportedError(h) == h.status = "error" \/ h.errors # <<>>

\* C1: the ten nodes run in the fixed order of the graph, each once; whatever a
\* node reports, the node invoked next is the next of the order, and a run that
\* has ended has run all ten.
C1_FixedOrder ==
    /\ IsPrefix(StageNames, Nodes)
    /\ pc \in NodeSet => (Len(hist) < Len(Nodes) /\ pc = Nodes[Len(hist) + 1])
    /\ pc \in {"END", "RESPONDED"} => StageNames = Nodes

\* a finished run in which node 2 reported an error and node 3 still searched
C1_ErrorThenNextStage ==
    /\ pc = "END"
    /\ ReportedError(hist[2])
    /\ hist[3].status = "search_completed"

\* C2: the error list only grows: after every step the list before the step is
\* a prefix of the list after it.
C2_ErrorsAppendOnly == [][IsPrefix(rec.errors, rec'.errors)]_vars

AllOptionalAbsent(state) ==
    /\ state.pitch_deck_text = None
    /\ state.pitch_deck_url = None
    /\ state.pitch_deck_file_path = None
    /\ state.startup_data.website = None
    /\ state.startup_data.industry = None
    /\ state.startup_data.team_size = None

\* C4: no exception leaves a node: every node returns an update, the handler
\* never answers from its except branch, a run that is not over can take a
\* step, and a run that is over has run all ten nodes.
C4_NoExceptionEscapes ==
    /\ ~IsRaise(update)
    /\ response # Some(exception_response)
    /\ pc \in NodeSet => ENABLED Next
    /\ pc \in {"END", "RESPONDED"} => Len(hist) = Len(Nodes)

\* a finished run of a request with every optional input absent, in which the
\* search collaborator raised
C4_FinishedAfterRaise ==
    /\ pc = "END"
    /\ AllOptionalAbsent(rec)
    /\ hist[3].status = "error"
    /\ Len(hist) = Len(Nodes)

\* the statuses the nodes return when they find their precondition unmet
SkipStatuses ==
    {"no_pitch_deck", "no_website", "no_startup_name", "no_research_findings",
     "skipped_api_entry", "skipped_application_creation",
     "skipped_upload_no_id", "skipped_upload_no_pdf", "skipped_upload_no_scores",
     "skipped_pitch_deck_upload_no_startup_id", "skipped_pitch_deck_upload_no_app_id",
     "skipped_pitch_deck_upload_no_file"}

\* the statuses the nodes return when they or a collaborator failed
ErrorStatuses ==
    {"error", "website_scrape_failed", "search_failed", "api_error", "api_error_app",
     "upload_error", "pitch_deck_upload_error"}

\* C5: a node that skips, returning a no_* or skipped_* status, returns no
\* error entry.
C5_SkipAddsNoError ==
    \A i \in 1..Len(hist) : hist[i].status \in SkipStatuses => hist[i].errors = <<>>

\* C6: the status of the record is the status of the node that ran last, and
\* when the run is over it is one of the statuses of node 10.
C6_StatusIsLastStage ==
    /\ hist # <<>> => rec.status = hist[Len(hist)].status
    /\ pc \in {"END", "RESPONDED"} => rec.status \in PitchDeckUploadStatuses

\* a finished run in which an earlier node set the status "error" and the final
\* status is node 10's
C6_ErrorStatusOverwritten ==
    /\ pc = "END"
    /\ \E i \in 1..(Len(hist) - 1) : hist[i].status = "error"
    /\ rec.status = hist[Len(hist)].status
    /\ rec.status # "error"

\* C7: the handler answers success exactly when the final record holds research
\* findings and failure exactly when it does not, and either answer carries the
\* record's error list.
C7_SuccessIffFindings ==
    pc = "RESPONDED" =>
        LET r == response[1]
        IN /\ (r.http = 200 /\ r.status = "success") <=> rec.research_findings # None
           /\ (r.http = 500 /\ r.status = "error") <=> rec.research_findings = None
           /\ r.errors = Some(rec.errors)

\* a success answer that carries two errors
C7_SuccessWithErrors ==
    /\ pc = "RESPONDED"
    /\ response[1].status = "success"
    /\ rec.research_findings # None
    /\ Len(rec.errors) = 2
    /\ response[1].errors = Some(rec.errors)

\* the request holds a name and no document text, no document URL, no website
NameOnly(state) ==
    /\ state.startup_data.name # ""
    /\ state.startup_data.website = None
    /\ ~TruthyStr(state.pitch_deck_text)
    /\ state.pitch_deck_url = None

\* the run gathered no search data: no organized results, or every list empty
NoSearchData(state) ==
    \/ state.raw_gathering_data = None
    \/ state.raw_gathering_data[1].search_results = None
    \/ LET results == state.raw_gathering_data[1].search_results[1].search_results
       IN \A category \in DOMAIN results : results[category] = <<>>

\* C8: a run of a name-only request that gathered no search data runs all ten
\* nodes, ends without research findings and with a skip or error status, and
\* the handler answers failure.
C8_NameOnlyFails ==
    (NameOnly(rec) /\ NoSearchData(rec) /\ pc \in {"END", "RESPONDED"}) =>
        /\ Len(hist) = Len(Nodes)
        /\ rec.research_findings = None
        /\ rec.status \in SkipStatuses \cup ErrorStatuses
        /\ pc = "RESPONDED" => (response[1].http = 500 /\ response[1].status = "error")

\* the handler has answered a name-only request whose search returned nothing,
\* with a well-formed reply of the language model at hand
C8_NameOnlyAnswered ==
    /\ pc = "RESPONDED"
    /\ NameOnly(rec)
    /\ NoSearchData(rec)
    /\ hist[3].status = "search_completed"
    /\ llm = LLMReply(TRUE, TRUE, Some(JDict(NestedScorecardItems(72, "BUY"))))

\* the replies that are well-formed JSON with a scorecard
WellFormedReplies ==
    {LLMReply(prose, TRUE, Some(JDict(NestedScorecardItems(72, "BUY")))) : prose \in BOOLEAN}

\* C9: with a name, a parsed deck and a well-formed reply of the language
\* model, node 4 returns structured_by_llm and the record holds research
\* findings with a populated scorecard from then on.
C9_WellFormedReplyStructured ==
    (/\ Len(hist) >= 4
     /\ rec.startup_data.name # ""
     /\ hist[1].status = "pitch_deck_parsed"
     /\ llm \in WellFormedReplies) =>
        /\ hist[4].status = "structured_by_llm"
        /\ rec.research_findings # None
        /\ rec.research_findings[1].ai_scorecard # None
        /\ rec.research_findings[1].ai_scorecard[1].overall_score = 72

\* the bands the prompt of node 4 states, scores in tenths
Band(overall_score) ==
    IF overall_score >= 80 THEN "STRONG_BUY"
    ELSE IF overall_score >= 65 THEN "BUY"
    ELSE IF overall_score >= 50 THEN "HOLD"
    ELSE "PASS"

\* C10: the recommendation of a scorecard is the band of its overall score.
C10_RecommendationFollowsBands ==
    (pc # "llm_structure" /\ rec.research_findings # None) =>
        LET scorecard == rec.research_findings[1].ai_scorecard[1]
        IN scorecard.investment_recommendation = Band(scorecard.overall_score)

\* the weighted sum of the six category scores, weights in hundredths
WeightedSum(scorecard) ==
    25 * scorecard.founders_score.score + 20 * scorecard.market_score.score
    + 15 * scorecard.product_score.score + 20 * scorecard.traction_score.score
    + 10 * scorecard.team_score.score + 10 * scorecard.financials_score.score

\* C11: the overall score of a scorecard node 4 produced is the weighted sum of
\* its six category scores (scores in tenths and weights in hundredths, so the
\* tolerance of 1e-6 is equality).
C11_OverallIsWeightedSum ==
    (pc # "llm_structure" /\ rec.research_findings # None) =>
        LET scorecard == rec.research_findings[1].ai_scorecard[1]
        IN 100 * scorecard.overall_score = WeightedSum(scorecard)

----------------------------------------------------------------------------
(* A run in which ainvoke itself raises                                    *)

\* research_graph.ainvoke raises while the node at pc is due: an exception from
\* outside the nodes' try blocks (the engine validating the channel values
\* against GraphState, for one); the handler's except branch answers
AinvokeRaises ==
    /\ pc \in NodeSet
    /\ RunNode(pc, Raise("ainvoke failed"), rec)

SpecEscape == Init /\ [][Next \/ AinvokeRaises]_vars

\* C12: when an exception ends the run, the answer still carries the record as
\* it stood: status "error", the record's error entries followed by the
\* exception's message, and the fields earlier nodes had set.
C12_EscapedExceptionKeepsRecord ==
    (pc = "RESPONDED" /\ IsRaise(update)) =>
        LET r == response[1]
        IN /\ r.status = "error"
           /\ r.errors = Some(Append(rec.errors, update.raise))
           /\ r.research_findings = rec.research_findings
           /\ r.competitor_analysis = rec.competitor_analysis
           /\ r.thesis_pdf_path = rec.thesis_pdf_path

----------------------------------------------------------------------------
(* Nodes 7 to 10 on the records node 6 can hand them                       *)

\* records after node 6: without findings (node 6 skipped), or with findings
\* and the thesis PDF written or not; the uploaded deck file kept or not
AfterThesis ==
    {[AfterSearch EXCEPT !.status = "no_research_findings",
                         !.errors = <<"LLM structuring error">>,
                         !.pitch_deck_file_path = path] :
        path \in {None, Some("uploads/deck.pdf")}}
    \cup {[AfterSearch EXCEPT !.research_findings = Some(FindingsSample),
                              !.pitch_deck_file_path = path,
                              !.thesis_pdf_path = thesis,
                              !.status = IF thesis = None THEN "error"
                                         ELSE "thesis_pdf_generated",
                              !.errors = IF thesis = None THEN <<"PDF generation error">>
                                         ELSE <<>>] :
             path \in {None, Some("uploads/deck.pdf")},
             thesis \in {None, Some("outputs/thesis.pdf")}}

InitBackend ==
    /\ pc = "startup_creation"
    /\ rec \in AfterThesis
    /\ update = [status |-> rec.status]
    /\ hist = <<>>
    /\ llm = LLMRaises
    /\ response = None
    /\ arg = rec
    /\ reqs = <<>>
    /\ disk = None
    /\ passes = <<>>
    /\ poll = <<>>

NextBackend ==
    \/ StartupCreation
    \/ StartupApplicationCreation
    \/ UploadThesis
    \/ PitchDeckUpload
    \/ Respond

SpecBackend == InitBackend /\ [][NextBackend]_vars

\* the statuses with which nodes 8, 9 and 10 return after posting to the backend
RequestStatuses ==
    {"application_created", "api_error_app", "upload_complete", "upload_error",
     "pitch_deck_upload_complete", "pitch_deck_upload_error", "error"}

\* the history entries of `node`
Ran(node) == {i \in 1..Len(hist) : hist[i].node = node}

\* C13: nodes 8, 9 and 10 post to the backend only with startup_id set, node 10
\* only with application_id set as well; without the identifier each returns
\* its skip status, and the nodes after it still run.  (startup_id is final
\* once node 7 has run and application_id once node 8 has run.)
C13_BackendNeedsIds ==
    /\ \A i \in 1..Len(hist) :
          /\ (hist[i].node = "startup_application_creation" /\ ~TruthyStr(rec.startup_id))
                => hist[i].status = "skipped_application_creation"
          /\ (hist[i].node = "upload_thesis" /\ ~TruthyStr(rec.startup_id))
                => hist[i].status = "skipped_upload_no_id"
          /\ (hist[i].node = "pitch_deck_upload" /\ ~TruthyStr(rec.startup_id))
                => hist[i].status = "skipped_pitch_deck_upload_no_startup_id"
          /\ (hist[i].node = "pitch_deck_upload" /\ TruthyStr(rec.startup_id)
                /\ Ran("startup_application_creation") # {}
                /\ ~TruthyStr(rec.application_id))
                => hist[i].status = "skipped_pitch_deck_upload_no_app_id"
          /\ (hist[i].node \in {"startup_application_creation", "upload_thesis",
                                "pitch_deck_upload"}
                /\ hist[i].status \in RequestStatuses)
                => TruthyStr(rec.startup_id)
    /\ pc \in {"END", "RESPONDED"} =>
          /\ Ran("startup_application_creation") # {}
          /\ Ran("upload_thesis") # {}
          /\ Ran("pitch_deck_upload") # {}

\* node 7 posted and the backend refused, so no startup_id was set; nodes 8, 9
\* and 10 ran and skipped
C13_SkippedWithoutId ==
    /\ pc = "END"
    /\ \E i \in Ran("startup_creation") : hist[i].status = "api_error"
    /\ rec.startup_id = None
    /\ \E i \in Ran("upload_thesis") : hist[i].status = "skipped_upload_no_id"
    /\ \E i \in Ran("pitch_deck_upload") :
          hist[i].status = "skipped_pitch_deck_upload_no_startup_id"

\* C14: no node changes the state object it is called with: after the call the
\* object equals the record the engine handed over, its document text and its
\* raw gathering data included.
C14_InputNotMutated == [][(pc \in NodeSet) => (arg' = rec)]_vars

----------------------------------------------------------------------------
(* Every node on the records its predecessors can hand over                *)

\* records with each of the fields a node owns set or not
StageRecords ==
    {[AfterSearch EXCEPT !.research_findings = rf,
                         !.competitor_analysis = ca,
                         !.thesis_pdf_path = thesis,
                         !.startup_id = sid,
                         !.application_id = aid,
                         !.pitch_deck_file_path = Some("uploads/deck.pdf")] :
        rf \in {None, Some(FindingsSample)},
        ca \in {None, Some([startup_name |-> "Acme", competitors |-> <<>>,
                             market_overview |-> ""])},
        thesis \in {None, Some("outputs/thesis.pdf")},
        sid \in {None, Some("id-0")},
        aid \in {None, Some("id-0")}}

\* the run is picked up at any node
InitStages ==
    /\ pc \in NodeSet
    /\ rec \in StageRecords
    /\ update = [status |-> rec.status]
    /\ hist = <<>>
    /\ llm \in WellFormedReplies
    /\ response = None
    /\ arg = rec
    /\ reqs = <<>>
    /\ disk = None
    /\ passes = <<>>
    /\ poll = <<>>

SpecStages == InitStages /\ [][Next]_vars

\* the node that owns a field
Owner ==
    [research_findings |-> "llm_structure",
     competitor_analysis |-> "analyze_competitors",
     thesis_pdf_path |-> "generate_investment_thesis",
     startup_id |-> "startup_creation",
     application_id |-> "startup_application_creation"]

\* C15: no step changes startup_data; research_findings, competitor_analysis,
\* thesis_pdf_path, startup_id and application_id are returned by their owning
\* node only, and a step of any other node leaves them as they were.
C15_FieldOwnership ==
    [][/\ rec'.startup_data = rec.startup_data
       /\ "startup_data" \notin DOMAIN update'
       /\ \A key \in DOMAIN Owner :
             pc # Owner[key] => (rec'[key] = rec[key] /\ key \notin DOMAIN update')]_vars

\* a finished run in which node 10 posted the deck, with every owned field set
C15_OwnedFieldsKept ==
    /\ pc = "END"
    /\ \A key \in DOMAIN Owner : rec[key] # None
    /\ \E i \in Ran("pitch_deck_upload") : hist[i].status = "pitch_deck_upload_complete"
    /\ \E i \in Ran("upload_thesis") : hist[i].status = "upload_complete"

----------------------------------------------------------------------------
(* Failing collaborators                                                   *)

\* a backend answer with status 200
BackendOk == [kind |-> "response", ok |-> TRUE, id |-> Some("id-1")]

\* the post of an upload node failed: the node gets as far as posting (a
\* succeeding backend would complete the upload) and the backend raises or refuses
UploadFailed(state, e, body_status) ==
    /\ body_status = "posted"
    /\ (e.post.kind = "raise" \/ ~e.post.ok)

\* the updates `node` returns for `state` when one of its external calls fails
FailedUpdates(node, state) ==
    CASE node = "parse_pitch_deck" ->
            {parse_pitch_deck_node(state, e) :
                e \in {x \in Node1Env :
                          /\ UsesUrl(state)
                          /\ x.io = "ok"
                          /\ (x.download # "ok" \/ ~x.extract.success)}}
      [] node = "scrape_website" ->
            {scrape_website_node(state, e) :
                e \in {x \in Node2Env :
                          /\ TruthyStr(state.startup_data.website)
                          /\ (x.kind = "raise" \/ ~x.success)}}
      [] node = "search_startup" ->
            {search_startup_node(state, e) :
                e \in {x \in Node3Env :
                          /\ state.startup_data.name # ""
                          /\ \/ x.kind = "raise"
                             \/ ~x.success
                             \/ ~x.news.success
                             \/ \E t \in SearchTypes : ~x.searches[t].success}}
      [] node = "llm_structure" ->
            {llm_structure_node(state, reply) : reply \in {LLMRaises}}
      [] node = "analyze_competitors" ->
            {analyze_competitors_node(state, reply) :
                reply \in {x \in {LLMRaises} : TruthyObj(state.research_findings)}}
      [] node = "generate_investment_thesis" ->
            {generate_investment_thesis_node(state, e) :
                e \in {x \in Node6Env : TruthyObj(state.research_findings) /\ x = "raise"}}
      [] node = "startup_creation" ->
            {startup_creation_node(state, e) :
                e \in {x \in BackendEnv :
                          /\ TruthyObj(state.research_findings)
                          /\ (x.kind = "raise" \/ ~x.ok)}}
      [] node = "startup_application_creation" ->
            {startup_application_creation_node(state, e) :
                e \in {x \in BackendEnv :
                          /\ TruthyStr(state.startup_id)
                          /\ (x.kind = "raise" \/ ~x.ok)}}
      [] node = "upload_thesis" ->
            {upload_thesis_node(state, e) :
                e \in {x \in UploadEnv :
                          UploadFailed(state, x,
                              IF upload_thesis_body(state, [x EXCEPT !.post = BackendOk]).status
                                    = "upload_complete"
                              THEN "posted" ELSE "skipped")}}
      [] node = "pitch_deck_upload" ->
            {pitch_deck_upload_node(state, e) :
                e \in {x \in UploadEnv :
                          UploadFailed(state, x,
                              IF pitch_deck_upload_body(state, [x EXCEPT !.post = BackendOk]).status
                                    = "pitch_deck_upload_complete"
                              THEN "posted" ELSE "skipped")}}

\* C16: a step of a node one of whose external calls failed returns an update
\* with an error entry, and the run goes on to the next node.
C16_CollaboratorFailureRecorded ==
    [][(pc \in NodeSet /\ update' \in FailedUpdates(pc, rec)) =>
          (/\ ~IsRaise(update')
           /\ "errors" \in DOMAIN update'
           /\ update'.errors # <<>>
           /\ pc' = Edge(pc))]_vars

----------------------------------------------------------------------------
(* Replies that cannot be parsed                                           *)

\* the reply holds no JSON object, neither as a whole nor between its braces
NotJsonObject(reply) ==
    /\ reply.kind = "reply"
    /\ \/ ParseStructuredData(reply).t # "dict"
       \/ HasKey(ParseStructuredData(reply).v, "raw_response")

\* C17: when the reply of the language model holds no JSON object, node 4
\* returns an error entry and still fills research_findings with defaults, and
\* node 5, called on the record with such a reply, returns an error entry and
\* a competitor_analysis.
C17_ParseFailureRecorded ==
    /\ \A i \in 1..Len(hist) :
          (hist[i].node = "llm_structure" /\ NotJsonObject(llm)) =>
              (hist[i].errors # <<>> /\ rec.research_findings # None)
    /\ (pc = "analyze_competitors" /\ TruthyObj(rec.research_findings)) =>
          \A reply \in UnparseableReplies :
              LET u == analyze_competitors_node(rec, reply)
              IN /\ "errors" \in DOMAIN u
                 /\ "competitor_analysis" \in DOMAIN u
                 /\ u.competitor_analysis # None

----------------------------------------------------------------------------
(* Two requests served at once.  Each request has its own GraphState; the  *)
(* file node 1 downloads a deck into is one path for every request.  The   *)
(* handler and the nodes are coroutines on one event loop: a request runs  *)
(* until it awaits, so node 1's download, the opening of the file and the  *)
(* pages up to the first one sent to the vision model are one step, and    *)
(* the pages after that await are read in a later step.                    *)

Requests == {1, 2}

\* the deck behind each request's URL: an image slide, then a page of text
DeckPages(i) ==
    IF i = 1 THEN <<"Acme traction chart", "Acme Inc raises a seed round">>
    ELSE <<"Bolt traction chart", "Bolt Ltd raises a seed round">>

\* full_text += f"\n--- Page {page_num} ({source}) ---\n{page_text}"
HybridFullText(pages) ==
    "\n--- Page 1 (vision) ---\n" \o pages[1] \o "\n--- Page 2 (text) ---\n" \o pages[2]

\* the state the handler builds for request i
RequestStates(i) ==
    {InitialState([sd EXCEPT !.name = IF i = 1 THEN "Acme" ELSE "Bolt"], text, url, None) :
        sd \in {s \in StartupDataSamples : s.name # ""},
        text \in {None, Some(DeckText)},
        url \in {None, Some(IF i = 1 THEN "https://drive.example/acme"
                            ELSE "https://drive.example/bolt")}}

\* output_path = os.path.join(temp_dir, "downloaded_pitch_deck.pdf"): the
\* download of request i leaves its deck in the one file
DownloadedFile(i) == Some(i)

\* page.extract_text() on the handle opened before the await: the page of the
\* request's own deck while the file still holds it; once another download
\* has rewritten the file, the bytes buffered earlier, the bytes now in the
\* file, or nothing (the read fails and is only printed)
PageRead(i, file) ==
    IF file = DownloadedFile(i) THEN {DeckPages(i)[2]}
    ELSE {DeckPages(i)[2], DeckPages(file[1])[2], ""}

\* the environment of node 1 when the download succeeded and the extraction
\* returned these pages
Node1EnvWith(pages) ==
    [io |-> "ok", download |-> "ok",
     extract |-> [success |-> TRUE, full_text |-> HybridFullText(pages)]]

\* a request between the handler's ainvoke and the end of node 1: where it
\* is, the state it was started with, its record, and the pages read so far
ServedRequest(s) == [at |-> EntryPoint, input |-> s, state |-> s, pages |-> <<>>]

InitConcurrent ==
    /\ \E s1 \in RequestStates(1), s2 \in RequestStates(2) :
           reqs = [i \in Requests |-> ServedRequest(IF i = 1 THEN s1 ELSE s2)]
    /\ disk = None
    /\ passes = <<>>
    /\ poll = <<>>
    /\ pc = EntryPoint
    /\ rec = reqs[1].input
    /\ update = [status |-> "initialized"]
    /\ hist = <<>>
    /\ llm = LLMRaises
    /\ response = None
    /\ arg = rec

\* node 1 of request i returned u: its own record is updated
Node1Returns(i, u) ==
    reqs' = [reqs EXCEPT ![i].state = Merge(reqs[i].state, u),
                         ![i].at = Edge("parse_pitch_deck")]

\* Case A up to the first await: the deck is written to the file, the file is
\* opened, page 1 has too little text and is sent to the vision model
DownloadAndOpen(i) ==
    /\ reqs[i].at = "parse_pitch_deck"
    /\ UsesUrl(reqs[i].state)
    /\ disk' = DownloadedFile(i)
    /\ reqs' = [reqs EXCEPT ![i].at = "_ocr_page", ![i].pages = <<DeckPages(i)[1]>>]
    /\ UNCHANGED <<pc, rec, update, hist, llm, response, arg, passes, poll>>

\* the vision model answered: the remaining page is read and node 1 returns
ResumeExtraction(i) ==
    /\ reqs[i].at = "_ocr_page"
    /\ \E page \in PageRead(i, disk) :
           Node1Returns(i, parse_pitch_deck_node(reqs[i].state,
                                                Node1EnvWith(Append(reqs[i].pages, page))))
    /\ UNCHANGED <<disk, pc, rec, update, hist, llm, response, arg, passes, poll>>

\* Case B or no deck at all: node 1 runs without touching the file
ParseWithoutDownload(i) ==
    /\ reqs[i].at = "parse_pitch_deck"
    /\ ~UsesUrl(reqs[i].state)
    /\ Node1Returns(i, parse_pitch_deck_node(reqs[i].state, Node1EnvWith(DeckPages(i))))
    /\ UNCHANGED <<disk, pc, rec, update, hist, llm, response, arg, passes, poll>>

NextConcurrent ==
    \E i \in Requests :
        \/ DownloadAndOpen(i)
        \/ ResumeExtraction(i)
        \/ ParseWithoutDownload(i)

SpecConcurrent == InitConcurrent /\ [][NextConcurrent]_vars

\* the record node 1 leaves when request i is served alone
ServedAlone(i) ==
    Merge(reqs[i].input, parse_pitch_deck_node(reqs[i].input, Node1EnvWith(DeckPages(i))))

\* C18: of two requests served at once, each one's record after node 1 is the
\* record it would have had alone: nothing of the other request appears in it
\* or alters it.
C18_RequestsIsolated ==
    \A i \in Requests :
        (reqs # <<>> /\ reqs[i].at = Edge("parse_pitch_deck")) => reqs[i].state = ServedAlone(i)

----------------------------------------------------------------------------
(* flatten_nested_json on its own: a map is drawn, and flattened, and the  *)
(* result flattened again.                                                 *)

\* how many times a drawn map is flattened
MaxPasses == 2

\* the JSON types a field's value is drawn from, or the field is left out
FieldKinds == {"absent", "null", "str", "num", "list", "dict"}

FieldValue(kind) ==
    CASE kind = "null" -> JNull
      [] kind = "str" -> JStr("Acme Inc")
      [] kind = "num" -> JNum(72)
      [] kind = "list" -> JList(<<JStr("a")>>)
      [] kind = "dict" -> ScoreObject(80)

\* the items of the fields of `keys` that are not left out, in order
FieldsOf(keys, kinds) ==
    LET present == SelectSeq(keys, LAMBDA key : kinds[key] # "absent")
    IN [i \in 1..Len(present) |-> Item(present[i], FieldValue(kinds[present[i]]))]

\* field names the sections of section_mappings list
ExpectedFields ==
    {"name", "industry", "founders", "employee_count", "company_info", "known_competitors",
     "founders_score", "market_score", "product_score", "traction_score", "team_score",
     "financials_score", "competition_score", "overall_score", "investment_recommendation",
     "investment_summary", "key_risks", "key_opportunities"}

FlatKeys == {"name", "founders_score", "team_score"}

\* an already-flat map: expected field names at the top level
FlatMap(kinds) == JDict(FieldsOf(<<"name", "founders_score", "team_score">>, kinds))

\* the same fields one level deep under their section headers
NestedMap(kinds) ==
    JDict(<<Item("BASIC_INFORMATION", JDict(FieldsOf(<<"name">>, kinds))),
            Item("AI_SCORECARD", JDict(FieldsOf(<<"founders_score", "team_score">>, kinds)))>>)

IsFlat(data) ==
    data.t = "dict" /\ \A i \in 1..Len(data.v) : data.v[i].k \in ExpectedFields

IsSectionNested(data) ==
    /\ data.t = "dict"
    /\ \A i \in 1..Len(data.v) : data.v[i].k \in section_mappings /\ data.v[i].v.t = "dict"

InitFlatten ==
    /\ \E kinds \in [FlatKeys -> FieldKinds] :
           passes = <<FlatMap(kinds)>> \/ passes = <<NestedMap(kinds)>>
    /\ pc = "llm_structure"
    /\ rec \in {InitialState(sd, None, None, None) : sd \in {s \in StartupDataSamples : s.name # ""}}
    /\ update = [status |-> "initialized"]
    /\ hist = <<>>
    /\ llm = LLMRaises
    /\ response = None
    /\ arg = rec
    /\ reqs = <<>>
    /\ disk = None
    /\ poll = <<>>

\* structured_data = flatten_nested_json(structured_data)
Flatten ==
    /\ Len(passes) <= MaxPasses
    /\ passes' = Append(passes, flatten_nested_json(passes[Len(passes)]))
    /\ UNCHANGED <<pc, rec, update, hist, llm, response, arg, reqs, disk, poll>>

SpecFlatten == InitFlatten /\ [][Flatten]_vars

\* C19: flattening an already-flat map (expected field names at the top
\* level, values of any type) returns a map equal to its input.
C19_FlatInputUnchanged ==
    (Len(passes) >= 2 /\ IsFlat(passes[1])) => DictEq(passes[2].v, passes[1].v)

\* C20: for a section-nested map m, flattening the flattened map again gives
\* a map equal to flatten_nested_json(m).
C20_FlattenIdempotentOnNested ==
    (Len(passes) >= 3 /\ IsSectionNested(passes[1])) => DictEq(passes[3].v, passes[2].v)

----------------------------------------------------------------------------
(* Flat and section-nested replies                                         *)

\* the reply that holds the fields of a flat reply under section headers
NestedCounterpart(reply, o, r) ==
    LLMReply(reply.prose, reply.braces, Some(JDict(NestedScorecardItems(o, r))))

\* C21: a flat reply and the same fields under section headers give the same
\* research_findings, scorecard included, in stage 4.
C21_FlatAndNestedAgree ==
    \A o \in ScoreSamples, r \in RecommendationSamples :
        (/\ pc # "llm_structure"
         /\ llm.kind = "reply"
         /\ llm.body = Some(JDict(FlatScorecardItems(o, r))))
        => /\ ~IsRaise(update)
           /\ ~IsRaise(StructureReply(AfterSearch, NestedCounterpart(llm, o, r)))
           /\ rec.research_findings =
                  StructureReply(AfterSearch, NestedCounterpart(llm, o, r)).research_findings

----------------------------------------------------------------------------
(* Missing fields                                                          *)

\* the value a field of the findings has when the reply gives it, and the
\* declared empty representation it has otherwise
FieldOrDefault(kind, given, default) == IF kind = "given" THEN given ELSE default

\* C22: a field that is absent or null in the flattened reply takes its
\* declared empty representation in research_findings and the scorecard, and
\* stage 4 does not fail: null name, industry, founders, score or
\* overall_score included.
C22_MissingFieldsDefault ==
    \A kinds \in [MissingKeys -> MissingKinds] :
        (pc # "llm_structure" /\ llm = MissingFieldReply(kinds))
        => /\ update.status = "structured_by_llm"
           /\ rec.research_findings # None
           /\ LET findings == rec.research_findings[1]
              IN /\ findings.name = FieldOrDefault(kinds["name"], "Acme Inc", "Acme")
                 /\ findings.industry = FieldOrDefault(kinds["industry"], "AI", "")
                 /\ findings.founders =
                        FieldOrDefault(kinds["founders"], <<[name |-> "Ada"]>>, <<>>)
                 /\ findings.ai_scorecard[1].founders_score.score =
                        FieldOrDefault(kinds["score"], 80, 0)
                 /\ findings.ai_scorecard[1].overall_score =
                        FieldOrDefault(kinds["overall_score"], 72, 0)

----------------------------------------------------------------------------
(* TavilySearch.run_deep_research: a job is submitted, then its status is  *)
(* queried until it is completed or failed or the retries are used up.     *)

max_retries == 18

\* what create_research_task returns: success with a request_id, success
\* without one, or a failure (401, transport or HTTP error)
CreateOutcomes == {"started", "no_request_id", "unauthorized", "request_error"}

\* what one get_research_status call reports: a transport or HTTP error, or
\* the status field of the answer
StatusOutcomes == {"transport_error", "pending", "in_progress", "completed", "failed"}

Failure(error) == [success |-> FALSE, error |-> error]

\* the result run_deep_research returns on a status, None when the loop goes on
PollReturnsIgnoringFailed(status) ==
    CASE status = "completed" -> Some([success |-> TRUE, report |-> "content"])
      [] OTHER -> None

PollReturns(status) ==
    CASE status = "completed" -> Some([success |-> TRUE, report |-> "content"])
      [] status = "failed" -> Some(Failure("Research task failed on server side"))
      [] OTHER -> None

InitPolling ==
    /\ poll = [at |-> "create_research_task", queries |-> 0, errors |-> 0,
               seen |-> {}, result |-> None]
    /\ pc = "search_startup"
    /\ rec \in {InitialState(sd, None, None, None) : sd \in {s \in StartupDataSamples : s.name # ""}}
    /\ update = [status |-> "initialized"]
    /\ hist = <<>>
    /\ llm = LLMRaises
    /\ response = None
    /\ arg = rec
    /\ reqs = <<>>
    /\ disk = None
    /\ passes = <<>>

\* task = await self.create_research_task(query), and the two early returns
CreateResearchTask ==
    /\ poll.at = "create_research_task"
    /\ \E outcome \in CreateOutcomes :
          poll' = IF outcome = "started" THEN [poll EXCEPT !.at = "polling"]
                  ELSE [poll EXCEPT !.at = "returned",
                                    !.result = Some(Failure(
                                        IF outcome = "no_request_id"
                                        THEN "No request_id returned" ELSE outcome))]
    /\ UNCHANGED <<pc, rec, update, hist, llm, response, arg, reqs, disk, passes>>

\* one iteration of `for i in range(max_retries)`
GetResearchStatus ==
    /\ poll.at = "polling"
    /\ poll.queries < max_retries
    /\ \E status \in StatusOutcomes :
          poll' = [poll EXCEPT
                      !.queries = @ + 1,
                      !.errors = IF status = "transport_error" THEN @ + 1 ELSE @,
                      !.seen = @ \cup {status},
                      !.result = IF status = "transport_error" THEN None
                                 ELSE PollReturns(status),
                      !.at = IF status # "transport_error" /\ PollReturns(status) # None
                             THEN "returned" ELSE "polling"]
    /\ UNCHANGED <<pc, rec, update, hist, llm, response, arg, reqs, disk, passes>>

\* the loop is used up: return {"success": False, "error": "Research timed out"}
ResearchTimedOut ==
    /\ poll.at = "polling"
    /\ poll.queries >= max_retries
    /\ poll' = [poll EXCEPT !.at = "returned", !.result = Some(Failure("Research timed out"))]
    /\ UNCHANGED <<pc, rec, update, hist, llm, response, arg, reqs, disk, passes>>

NextPolling == CreateResearchTask \/ GetResearchStatus \/ ResearchTimedOut

SpecPolling == InitPolling /\ [][NextPolling]_vars

\* C23: at most 18 status queries are issued for a submitted job, failed ones
\* counted; the result is "Research timed out" only after 18 queries none of
\* which reported completed or failed; it is a success only if a query
\* reported completed; and a query that reports failed ends the run at once
\* with a failure.
C23_PollingBounded ==
    /\ poll.queries <= 18
    /\ poll.errors <= poll.queries
    /\ (poll.at = "polling") => (poll.seen \cap {"completed", "failed"} = {})
    /\ (poll.result = Some(Failure("Research timed out")))
           => (poll.queries = 18 /\ poll.seen \cap {"completed", "failed"} = {})
    /\ (poll.at = "returned" /\ poll.queries = 18 /\ poll.seen \cap {"completed", "failed"} = {})
           => poll.result = Some(Failure("Research timed out"))
    /\ (poll.result # None /\ poll.result[1].success) => "completed" \in poll.seen
    /\ ("failed" \in poll.seen)
           => (/\ poll.at = "returned"
               /\ poll.result = Some(Failure("Research task failed on server side")))

\* a run that timed out after queries that failed in transport
C23_TimedOutWithTransportErrors ==
    /\ poll.result = Some(Failure("Research timed out"))
    /\ poll.errors > 0
    /\ poll.errors < poll.queries

----------------------------------------------------------------------------
(* Deep research in the search stage                                       *)

\* C24: stage 3, run for a named startup, has the deep-research collaborator
\* run, and when that reports a failure or a timeout the stage goes on to the
\* web-search collaborator: it returns no error status of its own and the
\* record holds that collaborator's search results.
C24_FallsBackAfterDeepResearch ==
    \A i \in Ran("search_startup") :
        (hist[i].status # "no_startup_name")
        => /\ poll # <<>>
           /\ poll.at = "returned"
           /\ (~poll.result[1].success /\ hist[i].status = "search_completed")
                  => (/\ rec.raw_gathering_data # None
                      /\ rec.raw_gathering_data[1].search_results # None)

----------------------------------------------------------------------------
(* The sub-fields of the raw gathering bundle                              *)

\* a sub-field of the bundle of a record, None while there is no bundle
Gathered(state, field) ==
    IF state.raw_gathering_data = None THEN None ELSE state.raw_gathering_data[1][field]

\* C25: each sub-field of the raw gathering bundle has one writer and is never
\* cleared: pitch_deck_extracted changes in stage 1 only, website_scraped in
\* stage 2 only and search_results in stage 3 only, whatever the outcome of
\* the other stages.
C25_GatheredFieldsKept ==
    [][/\ (pc # "parse_pitch_deck")
              => (Gathered(rec', "pitch_deck_extracted") = Gathered(rec, "pitch_deck_extracted"))
       /\ (pc # "scrape_website")
              => (Gathered(rec', "website_scraped") = Gathered(rec, "website_scraped"))
       /\ (pc # "search_startup")
              => (Gathered(rec', "search_results") = Gathered(rec, "search_results"))]_vars

\* stage 3 ended in its except branch with the deck and the site gathered
C25_KeptThroughException ==
    /\ Len(hist) >= 3
    /\ hist[3].node = "search_startup"
    /\ hist[3].status = "error"
    /\ Gathered(rec, "pitch_deck_extracted") # None
    /\ Gathered(rec, "website_scraped") # None

----------------------------------------------------------------------------
(* Node 5 from the reply on, for a record that holds research findings     *)

\* how many entries the competitors list of a reply holds at most
MaxCompetitors == 6

\* an entry of the list: an object with a name, or a bare string, which has
\* no .get and cannot be built
CompetitorKinds == {"built", "not_dict"}

CompetitorName(i) == "Rival " \o ToString(i)

CompetitorEntry(kind, i) ==
    IF kind = "built" THEN JDict(<<Item("name", JStr(CompetitorName(i)))>>)
    ELSE JStr(CompetitorName(i))

\* a reply that is the JSON object of a competitor analysis
CompetitorReply(kinds) ==
    LLMReply(FALSE, TRUE,
        Some(JDict(<<Item("competitors",
                          JList([i \in 1..Len(kinds) |-> CompetitorEntry(kinds[i], i)])),
                     Item("market_overview", JStr("crowded"))>>)))

\* records node 4 would leave with findings; the gathering bundle held or not
WithFindings ==
    {[AfterSearch EXCEPT !.status = "structured_by_llm",
                         !.research_findings = Some(FindingsSample),
                         !.raw_gathering_data = raw] :
        raw \in {None, AfterSearch.raw_gathering_data}}

InitCompetitors ==
    /\ pc = "analyze_competitors"
    /\ rec \in WithFindings
    /\ update = [status |-> "structured_by_llm"]
    /\ hist = <<>>
    /\ \E n \in 0..MaxCompetitors :
          \E kinds \in [1..n -> CompetitorKinds] : llm = CompetitorReply(kinds)
    /\ response = None
    /\ arg = rec
    /\ reqs = <<>>
    /\ disk = None
    /\ passes = <<>>
    /\ poll = <<>>

AnalyzeReply == RunNode("analyze_competitors", analyze_competitors_node(rec, llm), rec)

SpecCompetitors == InitCompetitors /\ [][AnalyzeReply]_vars

\* the names of the entries among the first five that can be built
RECURSIVE BuiltNames(_, _)
BuiltNames(entries, i) ==
    IF i > Len(entries) \/ i > 5 THEN <<>>
    ELSE (IF entries[i].t = "dict" THEN <<[name |-> CompetitorName(i)]>> ELSE <<>>)
         \o BuiltNames(entries, i + 1)

----------------------------------------------------------------------------
(* Nodes 4 to 10 from the reply on: the fields that depend on the findings *)

\* replies node 4 turns into findings, and one it fails on (a null founders list)
StructureReplies ==
    {LLMReply(FALSE, TRUE, Some(JDict(FlatScorecardItems(72, "BUY")))),
     LLMReply(TRUE, TRUE, Some(JDict(NestedScorecardItems(72, "BUY")))),
     MissingFieldReply([key \in MissingKeys |-> IF key = "founders" THEN "null" ELSE "given"])}

\* the record of a request that gave its deck as a URL only, after node 1
\* downloaded and extracted it and nodes 2 and 3 found nothing to add
AfterDownload ==
    LET s0 == InitialState([name |-> "Acme", website |-> None, industry |-> None,
                            team_size |-> None],
                           None, Some("https://drive.example/deck"), None)
        e == [io |-> "ok", download |-> "ok",
              extract |-> [success |-> TRUE, full_text |-> DownloadedText]]
    IN [Merge(s0, parse_pitch_deck_node(s0, e)) EXCEPT !.status = "search_completed"]

InitStructured ==
    /\ pc = "llm_structure"
    /\ rec \in {[AfterSearch EXCEPT !.raw_gathering_data = raw, !.pitch_deck_file_path = path] :
                   raw \in {None, AfterSearch.raw_gathering_data},
                   path \in {None, Some("uploads/deck.pdf")}}
               \cup {AfterDownload}
    /\ update = [status |-> "search_completed"]
    /\ hist = <<>>
    /\ llm \in StructureReplies
    /\ response = None
    /\ arg = rec
    /\ reqs = <<>>
    /\ disk = None
    /\ passes = <<>>
    /\ poll = <<>>

NextStructured ==
    \/ ReconcileReply
    \/ AnalyzeCompetitors
    \/ GenerateInvestmentThesis
    \/ StartupCreation
    \/ StartupApplicationCreation
    \/ UploadThesis
    \/ PitchDeckUpload
    \/ Respond

SpecStructured == InitStructured /\ [][NextStructured]_vars

----------------------------------------------------------------------------
(* The scorecard of the findings and stage 9                               *)

\* the statuses stage 9 returns once it has built the upload request
UploadAttempted == {"upload_complete", "upload_error", "error"}

----------------------------------------------------------------------------
(* Stage 10 and the deck given as a URL                                    *)

\* the statuses stage 10 returns once it has posted the document
DeckPosted == {"pitch_deck_upload_complete", "pitch_deck_upload_error"}

----------------------------------------------------------------------------
(* The source of the deck in stage 1                                       *)

\* the download and the extraction of node 1 both succeeded
FetchSucceeded(e) == e.download = "ok" /\ e.extract.success

====
